---- MODULE Spec2Model ----
(***************************************************************************)
(* Arc look-up indexes of lemon/core.h: DynArcLookUp (splay tree kept in   *)
(* step with the digraph through the arc notifier), ArcLookUp (static      *)
(* balanced tree) and AllArcLookUp (ArcLookUp plus the _next chain).       *)
(*                                                                         *)
(* Arcs are the ids 1..MaxArcs, nodes the ids 1..NumNodes, INVALID is 0.   *)
(* Node identities are ordered by their id (Node::operator<).              *)
(***************************************************************************)
EXTENDS Integers, Sequences, FiniteSets, TLC

NumNodes == 2
MaxArcs == 3

\* Changes of the digraph explored between two moments at which a static
\* index is up to date.
MaxMuts == 2

\* Calls explored on an index whose links already lead to an erased arc or
\* disagree with each other; what such a call does depends on map entries
\* of erased arcs.
MaxBroken == 1

INVALID == 0
Nodes == 1..NumNodes
ArcIds == 1..MaxArcs

\* Bound of every loop that walks a tree; never reached on a tree without
\* cycles, reached only when the links form a cycle.
Fuel == (2 * MaxArcs) + 2

VARIABLES
  mode,     \* which index class the run constructs: "dyn" or "static"
  alive,    \* the arcs of the digraph
  src,      \* _g.source of every arc id (kept by the arc slot after erase)
  tgt,      \* _g.target of every arc id
  head,     \* DynArcLookUp::_head
  parent,   \* DynArcLookUp::_parent
  left,     \* DynArcLookUp::_left
  right,    \* DynArcLookUp::_right
  st,       \* "ok"; "ub" after a read through INVALID; "hang" for a loop that does not end
  last,     \* the last call: [op, s, t, a, ret]
  broken,   \* calls made since the links of the index first stopped being consistent
  sHead,    \* ArcLookUp::_head
  sLeft,    \* ArcLookUp::_left
  sRight,   \* ArcLookUp::_right
  sNext,    \* AllArcLookUp::_next
  indexed,  \* history: per node, the arcs its tree was built from at its last refresh
  snap,     \* history: per node, the targets of those arcs at that refresh
  erased,   \* history: per node, whether one of those arcs has been erased since
  dirty,    \* history: the nodes whose out-arcs changed since their last refresh
  muts,     \* history: the changes of the digraph since no node was dirty
  less,     \* Node::operator< of the digraph type, as the pairs <<a, b>> with a < b
  sorted    \* per node, the vector std::sort leaves for its out-arcs in the digraph as it is

gvars == <<alive, src, tgt>>
dvars == <<head, parent, left, right>>
svars == <<sHead, sLeft, sRight, sNext>>
hvars == <<indexed, snap, erased, dirty, muts, sorted>>
vars == <<mode, alive, src, tgt, head, parent, left, right, st, last, broken,
          sHead, sLeft, sRight, sNext, indexed, snap, erased, dirty, muts, sorted, less>>

G == [alive |-> alive, src |-> src, tgt |-> tgt]
M == [head |-> head, parent |-> parent, left |-> left, right |-> right, st |-> "ok"]

Call(op, s, t, a, ret) == [op |-> op, s |-> s, t |-> t, a |-> a, ret |-> ret]

Fail(m, why) == [m EXCEPT !.st = why]

OutArcs(g, n) == {a \in g.alive : g.src[a] = n}

----------------------------------------------------------------------------
(* DynArcLookUp: rotations and splay                                        *)

\* A faulty zig that leaves out _left.set(w, _right[v]).
zigKeepLeft(m, v) ==
  IF m.st # "ok" THEN m
  ELSE IF v = INVALID THEN Fail(m, "ub")
  ELSE LET w == m.parent[v] IN
    IF w = INVALID THEN Fail(m, "ub")
    ELSE
      LET p1 == [m.parent EXCEPT ![v] = m.parent[w]]
          p2 == [p1 EXCEPT ![w] = v]
          r1 == [m.right EXCEPT ![v] = w]
          pv == p2[v]
          r2 == IF pv # INVALID /\ r1[pv] = w THEN [r1 EXCEPT ![pv] = v] ELSE r1
          l2 == IF pv # INVALID /\ r1[pv] # w THEN [m.left EXCEPT ![pv] = v] ELSE m.left
          p3 == IF l2[w] # INVALID THEN [p2 EXCEPT ![l2[w]] = w] ELSE p2
      IN [m EXCEPT !.parent = p3, !.left = l2, !.right = r2]

zig(m, v) ==
  IF m.st # "ok" THEN m
  ELSE IF v = INVALID THEN Fail(m, "ub")
  ELSE LET w == m.parent[v] IN
    IF w = INVALID THEN Fail(m, "ub")
    ELSE
      LET p1 == [m.parent EXCEPT ![v] = m.parent[w]]
          p2 == [p1 EXCEPT ![w] = v]
          l1 == [m.left EXCEPT ![w] = m.right[v]]
          r1 == [m.right EXCEPT ![v] = w]
          pv == p2[v]
          r2 == IF pv # INVALID /\ r1[pv] = w THEN [r1 EXCEPT ![pv] = v] ELSE r1
          l2 == IF pv # INVALID /\ r1[pv] # w THEN [l1 EXCEPT ![pv] = v] ELSE l1
          p3 == IF l2[w] # INVALID THEN [p2 EXCEPT ![l2[w]] = w] ELSE p2
      IN [m EXCEPT !.parent = p3, !.left = l2, !.right = r2]

zag(m, v) ==
  IF m.st # "ok" THEN m
  ELSE IF v = INVALID THEN Fail(m, "ub")
  ELSE LET w == m.parent[v] IN
    IF w = INVALID THEN Fail(m, "ub")
    ELSE
      LET p1 == [m.parent EXCEPT ![v] = m.parent[w]]
          p2 == [p1 EXCEPT ![w] = v]
          r1 == [m.right EXCEPT ![w] = m.left[v]]
          l1 == [m.left EXCEPT ![v] = w]
          pv == p2[v]
          l2 == IF pv # INVALID /\ l1[pv] = w THEN [l1 EXCEPT ![pv] = v] ELSE l1
          r2 == IF pv # INVALID /\ l1[pv] # w THEN [r1 EXCEPT ![pv] = v] ELSE r1
          p3 == IF r2[w] # INVALID THEN [p2 EXCEPT ![r2[w]] = w] ELSE p2
      IN [m EXCEPT !.parent = p3, !.left = l2, !.right = r2]

\* A faulty iteration that makes a single rotation also below a grandparent.
splayStepSingle(m, v) ==
  IF v = m.left[m.parent[v]] THEN zig(m, v) ELSE zag(m, v)

\* One iteration of the loop of splay: a single or a double rotation.
splayStep(m, v) ==
  LET p == m.parent[v]
      gp == m.parent[p]
  IN IF v = m.left[p]
     THEN IF gp = INVALID THEN zig(m, v)
          ELSE IF p = m.left[gp] THEN zig(zig(m, p), v)
          ELSE zag(zig(m, v), v)
     ELSE IF gp = INVALID THEN zag(m, v)
          ELSE IF p = m.left[gp] THEN zig(zag(m, v), v)
          ELSE zag(zag(m, p), v)

RECURSIVE splayLoop(_, _, _, _)
splayLoop(g, m, v, fuel) ==
  IF m.st # "ok" THEN m
  ELSE IF v = INVALID THEN Fail(m, "ub")
  ELSE IF m.parent[v] = INVALID THEN [m EXCEPT !.head[g.src[v]] = v]
  ELSE IF fuel = 0 THEN Fail(m, "hang")
  ELSE splayLoop(g, splayStep(m, v), v, fuel - 1)

\* A faulty splay that leaves out the closing _head[_g.source(v)] = v.
splayKeepHead(g, m, v) ==
  LET r == splayLoop(g, m, v, Fuel) IN [r EXCEPT !.head = m.head]

splay(g, m, v) == splayLoop(g, m, v, Fuel)

----------------------------------------------------------------------------
(* DynArcLookUp: insert and remove                                          *)

RECURSIVE insertLoop(_, _, _, _, _)
insertLoop(g, m, arc, e, fuel) ==
  IF fuel = 0 THEN Fail(m, "hang")
  ELSE IF g.tgt[arc] < g.tgt[e]
       THEN IF m.left[e] = INVALID
            THEN splay(g, [m EXCEPT !.left[e] = arc, !.parent[arc] = e], arc)
            ELSE insertLoop(g, m, arc, m.left[e], fuel - 1)
       ELSE IF m.right[e] = INVALID
            THEN splay(g, [m EXCEPT !.right[e] = arc, !.parent[arc] = e], arc)
            ELSE insertLoop(g, m, arc, m.right[e], fuel - 1)

\* A faulty insert that leaves out _left.set(arc, INVALID) and
\* _right.set(arc, INVALID).
insertKeepLinks(g, m, arc) ==
  IF m.st # "ok" THEN m
  ELSE
    LET s == g.src[arc]
        e == m.head[s]
    IN IF e = INVALID
       THEN [m EXCEPT !.head[s] = arc, !.parent[arc] = INVALID]
       ELSE insertLoop(g, m, arc, e, Fuel)

\* A faulty insert whose descent takes the right child where the code takes
\* the left one and the left child where it takes the right one.
RECURSIVE insertLoopMirrored(_, _, _, _, _)
insertLoopMirrored(g, m, arc, e, fuel) ==
  IF fuel = 0 THEN Fail(m, "hang")
  ELSE IF g.tgt[arc] < g.tgt[e]
       THEN IF m.right[e] = INVALID
            THEN splay(g, [m EXCEPT !.right[e] = arc, !.parent[arc] = e], arc)
            ELSE insertLoopMirrored(g, m, arc, m.right[e], fuel - 1)
       ELSE IF m.left[e] = INVALID
            THEN splay(g, [m EXCEPT !.left[e] = arc, !.parent[arc] = e], arc)
            ELSE insertLoopMirrored(g, m, arc, m.left[e], fuel - 1)

insertMirrored(g, m, arc) ==
  IF m.st # "ok" THEN m
  ELSE
    LET s == g.src[arc]
        m1 == [m EXCEPT !.left[arc] = INVALID, !.right[arc] = INVALID]
        e == m1.head[s]
    IN IF e = INVALID
       THEN [m1 EXCEPT !.head[s] = arc, !.parent[arc] = INVALID]
       ELSE insertLoopMirrored(g, m1, arc, e, Fuel)

\* A faulty insert whose descent goes left also at an arc of equal target,
\* so that the new arc comes before its parallel arcs.
RECURSIVE insertLoopBefore(_, _, _, _, _)
insertLoopBefore(g, m, arc, e, fuel) ==
  IF fuel = 0 THEN Fail(m, "hang")
  ELSE IF g.tgt[arc] <= g.tgt[e]
       THEN IF m.left[e] = INVALID
            THEN splay(g, [m EXCEPT !.left[e] = arc, !.parent[arc] = e], arc)
            ELSE insertLoopBefore(g, m, arc, m.left[e], fuel - 1)
       ELSE IF m.right[e] = INVALID
            THEN splay(g, [m EXCEPT !.right[e] = arc, !.parent[arc] = e], arc)
            ELSE insertLoopBefore(g, m, arc, m.right[e], fuel - 1)

insertBeforeEqual(g, m, arc) ==
  IF m.st # "ok" THEN m
  ELSE
    LET s == g.src[arc]
        m1 == [m EXCEPT !.left[arc] = INVALID, !.right[arc] = INVALID]
        e == m1.head[s]
    IN IF e = INVALID
       THEN [m1 EXCEPT !.head[s] = arc, !.parent[arc] = INVALID]
       ELSE insertLoopBefore(g, m1, arc, e, Fuel)

\* A faulty insert that puts the arc above the old root, whatever the targets.
insertAboveRoot(g, m, arc) ==
  IF m.st # "ok" THEN m
  ELSE
    LET s == g.src[arc]
        e == m.head[s]
    IN IF e = INVALID
       THEN [m EXCEPT !.left[arc] = INVALID, !.right[arc] = INVALID,
                      !.head[s] = arc, !.parent[arc] = INVALID]
       ELSE [m EXCEPT !.left[arc] = e, !.right[arc] = INVALID, !.parent[e] = arc,
                      !.head[s] = arc, !.parent[arc] = INVALID]

insert(g, m, arc) ==
  IF m.st # "ok" THEN m
  ELSE
    LET s == g.src[arc]
        m1 == [m EXCEPT !.left[arc] = INVALID, !.right[arc] = INVALID]
        e == m1.head[s]
    IN IF e = INVALID
       THEN [m1 EXCEPT !.head[s] = arc, !.parent[arc] = INVALID]
       ELSE insertLoop(g, m1, arc, e, Fuel)

\* The parent of arc (or _head when arc is the root) is made to point at c.
relink(g, m, arc, c, setHead) ==
  LET p == m.parent[arc] IN
  IF p # INVALID
  THEN IF m.left[p] = arc THEN [m EXCEPT !.left[p] = c]
       ELSE [m EXCEPT !.right[p] = c]
  ELSE IF setHead THEN [m EXCEPT !.head[g.src[arc]] = c] ELSE m

\* while (_right[e] != INVALID) e = _right[e];  0 when the walk does not end
RECURSIVE rightmost(_, _, _)
rightmost(m, e, fuel) ==
  IF m.right[e] = INVALID THEN e
  ELSE IF fuel = 0 THEN INVALID
  ELSE rightmost(m, m.right[e], fuel - 1)

\* Lines 1355-1379: the predecessor e lies below _left[arc].
removeDeep(g, m, arc) ==
  LET e == rightmost(m, m.right[m.left[arc]], Fuel) IN
  IF e = INVALID THEN Fail(m, "hang")
  ELSE
    LET s == m.parent[e] IN
    IF s = INVALID THEN Fail(m, "ub")
    ELSE
      LET r1 == [m.right EXCEPT ![s] = m.left[e]]
          p1 == IF m.left[e] # INVALID
                THEN [m.parent EXCEPT ![m.left[e]] = m.parent[e]]
                ELSE m.parent
          l1 == [m.left EXCEPT ![e] = m.left[arc]]
          p2 == [p1 EXCEPT ![l1[arc]] = e]
          r2 == [r1 EXCEPT ![e] = r1[arc]]
      IN IF l1[arc] = INVALID \/ r2[arc] = INVALID THEN Fail(m, "ub")
         ELSE
           LET p3 == [p2 EXCEPT ![r2[arc]] = e]
               p4 == [p3 EXCEPT ![e] = p3[arc]]
               m4 == [m EXCEPT !.parent = p4, !.left = l1, !.right = r2]
           IN splay(g, relink(g, m4, arc, e, FALSE), s)

\* Lines 1380-1393: the predecessor is _left[arc] itself.
removeShallow(g, m, arc) ==
  LET e == m.left[arc]
      m1 == [m EXCEPT !.right[e] = m.right[arc]]
      m2 == [m1 EXCEPT !.parent[m1.right[arc]] = e]
  IN relink(g, m2, arc, e, TRUE)

\* Which branch of remove runs for arc, and whether arc is a root.
removeCase(m, arc) ==
  LET top == IF m.parent[arc] = INVALID THEN "Root" ELSE "" IN
  IF m.left[arc] = INVALID THEN "eraseNoLeft"
  ELSE IF m.right[arc] = INVALID THEN "eraseNoRight"
  ELSE IF m.right[m.left[arc]] # INVALID THEN "eraseDeep" \o top
  ELSE "eraseShallow" \o top

remove(g, m, arc) ==
  IF m.st # "ok" THEN m
  ELSE IF m.left[arc] = INVALID
  THEN LET m1 == IF m.right[arc] # INVALID
                 THEN [m EXCEPT !.parent[m.right[arc]] = m.parent[arc]]
                 ELSE m
       IN relink(g, m1, arc, m1.right[arc], TRUE)
  ELSE IF m.right[arc] = INVALID
  THEN LET m1 == [m EXCEPT !.parent[m.left[arc]] = m.parent[arc]]
       IN relink(g, m1, arc, m1.left[arc], TRUE)
  ELSE IF m.right[m.left[arc]] # INVALID
  THEN removeDeep(g, m, arc)
  ELSE removeShallow(g, m, arc)

----------------------------------------------------------------------------
(* DynArcLookUp: refresh                                                    *)

\* The vectors std::sort(v.begin(), v.end(), ArcLess(_g)) can leave for the
\* arcs of S: every order of S with non-decreasing targets (the order of
\* OutArcIt and of arcs of equal target is not fixed by the code).
RECURSIVE Sorts(_, _)
Sorts(g, S) ==
  IF S = {} THEN {<<>>}
  ELSE LET lo == {a \in S : \A b \in S : ~(g.tgt[b] < g.tgt[a])}
       IN UNION {{<<a>> \o w : w \in Sorts(g, S \ {a})} : a \in lo}

\* A faulty refreshRec that roots every range at its first arc.
RECURSIVE refreshRecSkewed(_, _, _, _)
refreshRecSkewed(m, v, a, b) ==
  LET me == v[a + 1]
      m1 == [m EXCEPT !.left[me] = INVALID]
      rgt == IF a < b THEN refreshRecSkewed(m1, v, a + 1, b) ELSE [m |-> m1, r |-> INVALID]
      m2 == IF a < b
            THEN [rgt.m EXCEPT !.right[me] = rgt.r, !.parent[rgt.r] = me]
            ELSE [m1 EXCEPT !.right[me] = INVALID]
  IN [m |-> m2, r |-> me]

\* DynArcLookUp::refreshRec(v, a, b), a and b counted from 0.
RECURSIVE refreshRec(_, _, _, _)
refreshRec(m, v, a, b) ==
  LET mid == (a + b) \div 2
      me == v[mid + 1]
      lft == IF a < mid THEN refreshRec(m, v, a, mid - 1) ELSE [m |-> m, r |-> INVALID]
      m1 == IF a < mid
            THEN [lft.m EXCEPT !.left[me] = lft.r, !.parent[lft.r] = me]
            ELSE [m EXCEPT !.left[me] = INVALID]
      rgt == IF mid < b THEN refreshRec(m1, v, mid + 1, b) ELSE [m |-> m1, r |-> INVALID]
      m2 == IF mid < b
            THEN [rgt.m EXCEPT !.right[me] = rgt.r, !.parent[rgt.r] = me]
            ELSE [m1 EXCEPT !.right[me] = INVALID]
  IN [m |-> m2, r |-> me]

\* A faulty refresh of one node that leaves out _parent.set(head, INVALID).
refreshNodeKeepParent(m, v, n) ==
  IF Len(v) > 0
  THEN LET res == refreshRec(m, v, 0, Len(v) - 1)
       IN [res.m EXCEPT !.head[n] = res.r]
  ELSE [m EXCEPT !.head[n] = INVALID]

\* The body of the loop of refresh() for node n, v the sorted vector.
refreshNode(m, v, n) ==
  IF Len(v) > 0
  THEN LET res == refreshRec(m, v, 0, Len(v) - 1)
       IN [res.m EXCEPT !.head[n] = res.r, !.parent[res.r] = INVALID]
  ELSE [m EXCEPT !.head[n] = INVALID]

RECURSIVE refreshFrom(_, _, _)
refreshFrom(g, ms, n) ==
  IF n > NumNodes THEN ms
  ELSE refreshFrom(g, {refreshNode(m, v, n) : m \in ms, v \in Sorts(g, OutArcs(g, n))},
                   n + 1)

\* DynArcLookUp::refresh(): the maps it can leave, one for every sort result.
refresh(g, m) == refreshFrom(g, {m}, 1)

----------------------------------------------------------------------------
(* DynArcLookUp: the queries.  Each returns the maps and the returned arc.  *)

Res(m, r) == [m |-> m, ret |-> r]

RECURSIVE lookupLoop(_, _, _, _, _)
lookupLoop(g, m, t, a, fuel) ==
  IF a = INVALID THEN Res(Fail(m, "ub"), INVALID)
  ELSE IF fuel = 0 THEN Res(Fail(m, "hang"), INVALID)
  ELSE IF g.tgt[a] = t THEN Res(splay(g, m, a), a)
  ELSE IF t < g.tgt[a]
       THEN IF m.left[a] = INVALID THEN Res(splay(g, m, a), INVALID)
            ELSE lookupLoop(g, m, t, m.left[a], fuel - 1)
       ELSE IF m.right[a] = INVALID THEN Res(splay(g, m, a), INVALID)
            ELSE lookupLoop(g, m, t, m.right[a], fuel - 1)

\* DynArcLookUp::operator()(s, t)
lookup(g, m, s, t) == lookupLoop(g, m, t, m.head[s], Fuel)

RECURSIVE findFirstLoop(_, _, _, _, _, _)
findFirstLoop(g, m, t, a, r, fuel) ==
  IF a = INVALID THEN Res(Fail(m, "ub"), INVALID)
  ELSE IF fuel = 0 THEN Res(Fail(m, "hang"), INVALID)
  ELSE IF g.tgt[a] < t
       THEN IF m.right[a] = INVALID THEN Res(splay(g, m, a), r)
            ELSE findFirstLoop(g, m, t, m.right[a], r, fuel - 1)
       ELSE LET r1 == IF g.tgt[a] = t THEN a ELSE r IN
            IF m.left[a] = INVALID THEN Res(splay(g, m, a), r1)
            ELSE findFirstLoop(g, m, t, m.left[a], r1, fuel - 1)

\* A faulty findFirst that stops at the first arc of target t it meets.
findFirstMet(g, m, s, t) == lookup(g, m, s, t)

\* DynArcLookUp::findFirst(s, t)
findFirst(g, m, s, t) == findFirstLoop(g, m, t, m.head[s], INVALID, Fuel)

\* while (_left[a] != INVALID) a = _left[a];  0 when the walk does not end
RECURSIVE leftmost(_, _, _)
leftmost(m, a, fuel) ==
  IF m.left[a] = INVALID THEN a
  ELSE IF fuel = 0 THEN INVALID
  ELSE leftmost(m, m.left[a], fuel - 1)

\* while (_parent[a] != INVALID && _right[_parent[a]] == a) a = _parent[a];
RECURSIVE climb(_, _, _)
climb(m, a, fuel) ==
  IF m.parent[a] # INVALID /\ m.right[m.parent[a]] = a
  THEN IF fuel = 0 THEN INVALID ELSE climb(m, m.parent[a], fuel - 1)
  ELSE a

\* DynArcLookUp::findNext(s, t, a); s is not used by the code.
findNext(g, m, t, a) ==
  IF a = INVALID THEN Res(Fail(m, "ub"), INVALID)
  ELSE IF m.right[a] # INVALID
  THEN LET b == leftmost(m, m.right[a], Fuel) IN
       IF b = INVALID THEN Res(Fail(m, "hang"), INVALID)
       ELSE Res(splay(g, m, b), IF g.tgt[b] = t THEN b ELSE INVALID)
  ELSE LET c == climb(m, a, Fuel) IN
       IF c = INVALID THEN Res(Fail(m, "hang"), INVALID)
       ELSE IF m.parent[c] = INVALID THEN Res(m, INVALID)
       ELSE LET b == m.parent[c] IN
            Res(splay(g, m, b), IF g.tgt[b] = t THEN b ELSE INVALID)

----------------------------------------------------------------------------
(* ArcLookUp and AllArcLookUp                                               *)

S == [head |-> sHead, left |-> sLeft, right |-> sRight, next |-> sNext]

\* A faulty refreshRec that gives no arc a left child.
RECURSIVE sRefreshRecNoLeft(_, _, _, _)
sRefreshRecNoLeft(x, v, a, b) ==
  LET mid == (a + b) \div 2
      me == v[mid + 1]
      x1 == [x EXCEPT !.left[me] = INVALID]
      rgt == IF mid < b THEN sRefreshRecNoLeft(x1, v, mid + 1, b) ELSE [x |-> x1, r |-> INVALID]
      x2 == [rgt.x EXCEPT !.right[me] = rgt.r]
  IN [x |-> x2, r |-> me]

\* ArcLookUp::refreshRec(v, a, b), a and b counted from 0.
RECURSIVE sRefreshRec(_, _, _, _)
sRefreshRec(x, v, a, b) ==
  LET mid == (a + b) \div 2
      me == v[mid + 1]
      lft == IF a < mid THEN sRefreshRec(x, v, a, mid - 1) ELSE [x |-> x, r |-> INVALID]
      x1 == [lft.x EXCEPT !.left[me] = lft.r]
      rgt == IF mid < b THEN sRefreshRec(x1, v, mid + 1, b) ELSE [x |-> x1, r |-> INVALID]
      x2 == [rgt.x EXCEPT !.right[me] = rgt.r]
  IN [x |-> x2, r |-> me]

\* A faulty refresh(Node n) that leaves _head[n] alone when n has no out-arc.
sRefreshNodeKeepHead(x, v, n) ==
  IF Len(v) > 0
  THEN LET res == sRefreshRec(x, v, 0, Len(v) - 1)
       IN [res.x EXCEPT !.head[n] = res.r]
  ELSE x

\* A faulty refresh(Node n) that also drops the trees of the other nodes.
sRefreshNodeOnly(x, v, n) ==
  LET y == [x EXCEPT !.head = [m \in Nodes |-> INVALID]]
  IN IF Len(v) > 0
     THEN LET res == sRefreshRec(y, v, 0, Len(v) - 1)
          IN [res.x EXCEPT !.head[n] = res.r]
     ELSE y

\* ArcLookUp::refresh(Node n)
sRefreshNode(x, v, n) ==
  IF Len(v) > 0
  THEN LET res == sRefreshRec(x, v, 0, Len(v) - 1)
       IN [res.x EXCEPT !.head[n] = res.r]
  ELSE [x EXCEPT !.head[n] = INVALID]

\* The sort results of all nodes: std::sort is a function of the vector it
\* is given, and that vector (OutArcIt) of the digraph; among arcs of equal
\* target it may leave any order.
SortChoices(g) ==
  {vs \in [Nodes -> UNION {Sorts(g, OutArcs(g, n)) : n \in Nodes}] :
      \A n \in Nodes : vs[n] \in Sorts(g, OutArcs(g, n))}

RECURSIVE sRefreshFrom(_, _, _)
sRefreshFrom(x, vs, n) ==
  IF n > NumNodes THEN x
  ELSE sRefreshFrom(sRefreshNode(x, vs[n], n), vs, n + 1)

\* A faulty refresh() that passes over the first node.
sRefreshSkipFirst(x, vs) == sRefreshFrom(x, vs, 2)

\* ArcLookUp::refresh(), vs[n] the sorted vector of node n.
sRefresh(x, vs) == sRefreshFrom(x, vs, 1)

\* A faulty refreshNext that stores next whatever its target (the line the
\* source keeps as a comment: _next[head]=next).
RECURSIVE refreshNextPlain(_, _, _, _)
refreshNextPlain(g, x, hd, nxt) ==
  IF hd = INVALID THEN [x |-> x, r |-> nxt]
  ELSE
    LET up == refreshNextPlain(g, x, x.right[hd], nxt)
        x1 == [up.x EXCEPT !.next[hd] = up.r]
    IN refreshNextPlain(g, x1, x1.left[hd], hd)

\* AllArcLookUp::refreshNext(head, next): the maps and the returned arc.
RECURSIVE refreshNext(_, _, _, _)
refreshNext(g, x, hd, nxt) ==
  IF hd = INVALID THEN [x |-> x, r |-> nxt]
  ELSE
    LET up == refreshNext(g, x, x.right[hd], nxt)
        n1 == up.r
        x1 == [up.x EXCEPT !.next[hd] =
                 IF n1 # INVALID /\ g.tgt[n1] = g.tgt[hd] THEN n1 ELSE INVALID]
    IN refreshNext(g, x1, x1.left[hd], hd)

RECURSIVE refreshNextFrom(_, _, _)
refreshNextFrom(g, x, n) ==
  IF n > NumNodes THEN x
  ELSE refreshNextFrom(g, refreshNext(g, x, x.head[n], INVALID).x, n + 1)

\* AllArcLookUp::refreshNext()
refreshNextAll(g, x) == refreshNextFrom(g, x, 1)

\* A faulty refresh(Node) that leaves out refreshNext(_head[n]).
allRefreshNodeKeepNext(g, x, v, n) == sRefreshNode(x, v, n)

\* AllArcLookUp::refresh(Node n)
allRefreshNode(g, x, v, n) ==
  LET x1 == sRefreshNode(x, v, n)
  IN refreshNext(g, x1, x1.head[n], INVALID).x

\* AllArcLookUp::refresh(), one round of its loop: refresh(_head[n]) hands
\* the root arc of n to refresh(Node), which takes it for the node of the
\* same id; an id that names no node is read out of the node range.
allRefreshStep(g, r, vs, n) ==
  LET h == r.x.head[n] IN
  IF r.st # "ok" THEN r
  ELSE IF h \notin Nodes THEN [r EXCEPT !.st = "ub"]
  ELSE [x |-> allRefreshNode(g, r.x, vs[h], h), st |-> "ok", done |-> r.done \cup {h}]

RECURSIVE allRefreshFrom(_, _, _, _)
allRefreshFrom(g, r, vs, n) ==
  IF n > NumNodes THEN r
  ELSE allRefreshFrom(g, allRefreshStep(g, r, vs, n), vs, n + 1)

\* AllArcLookUp::refresh(): the maps it leaves, whether it read out of
\* range, and the nodes it rebuilt.
allRefresh(g, x, vs) == allRefreshFrom(g, [x |-> x, st |-> "ok", done |-> {}], vs, 1)

\* ArcLookUp::operator()(s, t); -1 when the walk does not end
RECURSIVE sLookupLoop(_, _, _, _, _)
sLookupLoop(g, x, t, e, fuel) ==
  IF e = INVALID \/ g.tgt[e] = t THEN e
  ELSE IF fuel = 0 THEN -1
  ELSE sLookupLoop(g, x, t, IF t < g.tgt[e] THEN x.left[e] ELSE x.right[e], fuel - 1)

sLookup(g, x, s, t) == sLookupLoop(g, x, t, x.head[s], Fuel)

\* AllArcLookUp::operator()(s, t, prev)
allLookup(g, x, s, t, prev) ==
  IF prev = INVALID THEN sLookup(g, x, s, t) ELSE x.next[prev]

----------------------------------------------------------------------------
(* The digraph (ListDigraph-like): arcs are added under a free id, an       *)
(* erased arc's slot keeps its end nodes until the id is used again.        *)

gAdd(g, a, s, t) ==
  [alive |-> g.alive \cup {a},
   src |-> [g.src EXCEPT ![a] = s],
   tgt |-> [g.tgt EXCEPT ![a] = t]]

gErase(g, a) == [g EXCEPT !.alive = g.alive \ {a}]

Graphs ==
  {[alive |-> A, src |-> f, tgt |-> h] :
      A \in SUBSET ArcIds, f \in [ArcIds -> Nodes], h \in [ArcIds -> Nodes]}

\* The digraphs an index is constructed over: unused slots hold node 1.
InitGraphs ==
  {g \in Graphs : \A a \in ArcIds \ g.alive : g.src[a] = 1 /\ g.tgt[a] = 1}

NoArcs == [a \in ArcIds |-> INVALID]
NoHead == [n \in Nodes |-> INVALID]
Blank == [head |-> NoHead, parent |-> NoArcs, left |-> NoArcs, right |-> NoArcs, st |-> "ok"]
SBlank == [head |-> NoHead, left |-> NoArcs, right |-> NoArcs, next |-> NoArcs]
NoCall == Call("construct", 0, 0, 0, 0)

\* The arcs whose map entries and end nodes the index can still read: the
\* arcs of the digraph and every arc a link leads to from them or from _head.
RECURSIVE Readable(_, _)
Readable(m, K) ==
  LET more == ({m.parent[a] : a \in K} \cup {m.left[a] : a \in K}
               \cup {m.right[a] : a \in K}) \ {INVALID}
  IN IF more \subseteq K THEN K ELSE Readable(m, K \cup more)

Kept(g, m) == Readable(m, g.alive \cup ({m.head[n] : n \in Nodes} \ {INVALID}))

\* The slot of an erased arc that no link leads to is not read again before
\* insert overwrites it; the state holds INVALID (node 1) there.
SetG(g, m) ==
  LET K == Kept(g, m) IN
  /\ alive' = g.alive
  /\ src' = [a \in ArcIds |-> IF a \in K THEN g.src[a] ELSE 1]
  /\ tgt' = [a \in ArcIds |-> IF a \in K THEN g.tgt[a] ELSE 1]

SetM(g, m) ==
  LET K == Kept(g, m) IN
  /\ head' = m.head
  /\ parent' = [a \in ArcIds |-> IF a \in K THEN m.parent[a] ELSE INVALID]
  /\ left' = [a \in ArcIds |-> IF a \in K THEN m.left[a] ELSE INVALID]
  /\ right' = [a \in ArcIds |-> IF a \in K THEN m.right[a] ELSE INVALID]
  /\ st' = m.st

\* Every link of the index leads to an arc of the digraph, and the parent
\* and child links of its arcs agree.
Linked(g, m) ==
  /\ \A n \in Nodes : m.head[n] # INVALID =>
        m.head[n] \in g.alive /\ m.parent[m.head[n]] = INVALID
  /\ \A a \in g.alive :
        /\ m.left[a] # INVALID => m.left[a] \in g.alive /\ m.parent[m.left[a]] = a
        /\ m.right[a] # INVALID => m.right[a] \in g.alive /\ m.parent[m.right[a]] = a
        /\ m.parent[a] # INVALID =>
              /\ m.parent[a] \in g.alive
              /\ m.left[m.parent[a]] = a \/ m.right[m.parent[a]] = a

\* What a call returns: its arc, or Undef when the call has read through
\* INVALID or does not end, so that no return value is defined.
Undef == -1
Returned(m, r) == IF m.st = "ok" THEN r ELSE Undef

\* Node::operator< of the digraphs of the library: the order of the ids.
NodeLess == {p \in Nodes \X Nodes : p[1] < p[2]}

NoHist == [n \in Nodes |-> {}]
HistOf(g, n) == OutArcs(g, n)
SnapOf(g, n) == {g.tgt[a] : a \in OutArcs(g, n)}

\* DynArcLookUp(g): attach to the arc notifier, then refresh().
InitDyn ==
  /\ mode = "dyn"
  /\ \E g \in InitGraphs :
       /\ alive = g.alive /\ src = g.src /\ tgt = g.tgt
       /\ \E m \in refresh(g, Blank) :
            head = m.head /\ parent = m.parent /\ left = m.left /\ right = m.right
  /\ st = "ok"
  /\ last = NoCall
  /\ broken = 0
  /\ sHead = NoHead /\ sLeft = NoArcs /\ sRight = NoArcs /\ sNext = NoArcs
  /\ indexed = NoHist /\ snap = NoHist /\ erased = [n \in Nodes |-> FALSE]
  /\ dirty = {} /\ muts = 0
  /\ sorted = [n \in Nodes |-> <<>>]
  /\ less = NodeLess

\* ArcLookUp(g): refresh();  AllArcLookUp(g): ArcLookUp(g), then refreshNext().
InitStatic ==
  /\ mode \in {"arc", "all"}
  /\ \E g \in InitGraphs :
       /\ alive = g.alive /\ src = g.src /\ tgt = g.tgt
       /\ sorted \in SortChoices(g)
       /\ LET x == sRefresh(SBlank, sorted)
              y == IF mode = "all" THEN refreshNextAll(g, x) ELSE x
          IN sHead = y.head /\ sLeft = y.left /\ sRight = y.right /\ sNext = y.next
       /\ indexed = [n \in Nodes |-> HistOf(g, n)]
       /\ snap = [n \in Nodes |-> SnapOf(g, n)]
  /\ erased = [n \in Nodes |-> FALSE]
  /\ dirty = {} /\ muts = 0
  /\ less = NodeLess
  /\ st = "ok"
  /\ last = NoCall
  /\ broken = 0
  /\ head = NoHead /\ parent = NoArcs /\ left = NoArcs /\ right = NoArcs

----------------------------------------------------------------------------
(* DynArcLookUp: the notifications of the arc notifier and the queries.     *)
(* A notification runs inside the mutating call of the digraph: add after   *)
(* the arc exists, erase while it still exists.                             *)

DynIdle == mode = "dyn" /\ st = "ok" /\ broken < MaxBroken
DynFrame ==
  /\ broken' = IF Linked(G, M) THEN 0 ELSE broken + 1
  /\ UNCHANGED <<mode, svars, hvars, less>>

\* add(const Arc&)
Add ==
  /\ DynIdle
  /\ \E a \in ArcIds \ alive, s \in Nodes, t \in Nodes :
       LET g == gAdd(G, a, s, t)
           m == insert(g, M, a)
       IN SetG(g, m) /\ SetM(g, m) /\ last' = Call("add", 0, 0, a, INVALID)
  /\ DynFrame

\* add(const std::vector<Arc>&), two arcs
AddBatch ==
  /\ DynIdle
  /\ \E a \in ArcIds \ alive, b \in ArcIds \ alive, s \in Nodes, t \in Nodes, u \in Nodes :
       /\ a # b
       /\ LET g == gAdd(gAdd(G, a, s, t), b, s, u)
              m == insert(g, insert(g, M, a), b)
          IN SetG(g, m) /\ SetM(g, m) /\ last' = Call("addBatch", 0, 0, b, INVALID)
  /\ DynFrame

\* erase(const Arc&)
Erase ==
  /\ DynIdle
  /\ \E a \in alive :
       LET m == remove(G, M, a)
       IN SetG(gErase(G, a), m) /\ SetM(gErase(G, a), m)
          /\ last' = Call(removeCase(M, a), src[a], 0, a, INVALID)
  /\ DynFrame

\* erase(const std::vector<Arc>&), two arcs
EraseBatch ==
  /\ DynIdle
  /\ \E a \in alive, b \in alive :
       /\ a # b
       /\ LET m == remove(G, remove(G, M, a), b)
              g == gErase(gErase(G, a), b)
          IN SetG(g, m) /\ SetM(g, m)
             /\ last' = Call("eraseBatch", 0, 0, 0, INVALID)
  /\ DynFrame

\* build()
Build ==
  /\ DynIdle
  /\ \E m \in refresh(G, M) : SetG(G, m) /\ SetM(G, m)
  /\ last' = Call("build", 0, 0, 0, INVALID)
  /\ DynFrame

\* clear(): the digraph drops every arc
Clear ==
  /\ DynIdle
  /\ LET g == [G EXCEPT !.alive = {}]
         m == [M EXCEPT !.head = NoHead]
     IN SetG(g, m) /\ SetM(g, m)
  /\ last' = Call("clear", 0, 0, 0, INVALID)
  /\ DynFrame

\* operator()(s, t)
Lookup ==
  /\ DynIdle
  /\ \E s \in Nodes, t \in Nodes :
       LET res == lookup(G, M, s, t) IN
       /\ SetG(G, res.m) /\ SetM(G, res.m)
       /\ last' = Call("lookup", s, t, 0, Returned(res.m, res.ret))
  /\ DynFrame

\* findFirst(s, t)
FindFirst ==
  /\ DynIdle
  /\ \E s \in Nodes, t \in Nodes :
       LET res == findFirst(G, M, s, t) IN
       /\ SetG(G, res.m) /\ SetM(G, res.m)
       /\ last' = Call("findFirst", s, t, 0, Returned(res.m, res.ret))
  /\ DynFrame

\* findNext(s, t, a) with a the arc the previous findFirst or findNext of
\* (s, t) returned
FindNext ==
  /\ DynIdle
  /\ last.op \in {"findFirst", "findNext"}
  /\ last.ret \in ArcIds
  /\ LET res == findNext(G, M, last.t, last.ret) IN
       /\ SetG(G, res.m) /\ SetM(G, res.m)
       /\ last' = Call("findNext", last.s, last.t, 0, Returned(res.m, res.ret))
  /\ DynFrame

NextDyn ==
  \/ Add \/ AddBatch \/ Erase \/ EraseBatch \/ Build \/ Clear
  \/ Lookup \/ FindFirst \/ FindNext

Spec == InitDyn /\ [][NextDyn]_vars

----------------------------------------------------------------------------
(* ArcLookUp and AllArcLookUp: the digraph changes without telling the      *)
(* index; the client calls refresh and the look-up operators.               *)

RECURSIVE SReadable(_, _)
SReadable(x, K) ==
  LET more == ({x.left[a] : a \in K} \cup {x.right[a] : a \in K}
               \cup {x.next[a] : a \in K}) \ {INVALID}
  IN IF more \subseteq K THEN K ELSE SReadable(x, K \cup more)

SKept(g, x) == SReadable(x, g.alive \cup ({x.head[n] : n \in Nodes} \ {INVALID}))

\* As SetG and SetM: slots of erased arcs no link leads to hold INVALID.
SetStatic(g, x) ==
  LET K == SKept(g, x) IN
  /\ alive' = g.alive
  /\ src' = [a \in ArcIds |-> IF a \in K THEN g.src[a] ELSE 1]
  /\ tgt' = [a \in ArcIds |-> IF a \in K THEN g.tgt[a] ELSE 1]
  /\ sHead' = x.head
  /\ sLeft' = [a \in ArcIds |-> IF a \in K THEN x.left[a] ELSE INVALID]
  /\ sRight' = [a \in ArcIds |-> IF a \in K THEN x.right[a] ELSE INVALID]
  /\ sNext' = [a \in ArcIds |-> IF a \in K THEN x.next[a] ELSE INVALID]

StaticIdle == mode \in {"arc", "all"} /\ st = "ok"
StaticFrame == UNCHANGED <<mode, dvars, st, broken, less>>

\* The history of node n after a refresh of n on digraph g.
Refreshed(g, n) ==
  /\ indexed' = [indexed EXCEPT ![n] = HistOf(g, n)]
  /\ snap' = [snap EXCEPT ![n] = SnapOf(g, n)]
  /\ erased' = [erased EXCEPT ![n] = FALSE]
  /\ dirty' = dirty \ {n}
  /\ muts' = IF dirty \subseteq {n} THEN 0 ELSE muts
  /\ UNCHANGED sorted

\* g.addArc(s, t): no index code runs
GraphAdd ==
  /\ StaticIdle
  /\ muts < MaxMuts
  /\ \E a \in ArcIds \ alive, s \in Nodes, t \in Nodes :
       /\ SetStatic(gAdd(G, a, s, t), S)
       /\ \E v \in Sorts(gAdd(G, a, s, t), OutArcs(gAdd(G, a, s, t), s)) :
            sorted' = [sorted EXCEPT ![s] = v]
       /\ dirty' = dirty \cup {s}
       /\ last' = Call("graphAdd", 0, 0, a, INVALID)
  /\ muts' = muts + 1
  /\ UNCHANGED <<indexed, snap, erased>>
  /\ StaticFrame

\* g.erase(a): no index code runs
GraphErase ==
  /\ StaticIdle
  /\ muts < MaxMuts
  /\ \E a \in alive :
       /\ SetStatic(gErase(G, a), S)
       /\ \E v \in Sorts(gErase(G, a), OutArcs(gErase(G, a), src[a])) :
            sorted' = [sorted EXCEPT ![src[a]] = v]
       /\ erased' = [n \in Nodes |-> erased[n] \/ a \in indexed[n]]
       /\ dirty' = dirty \cup {src[a]}
       /\ last' = Call("graphErase", 0, 0, a, INVALID)
  /\ muts' = muts + 1
  /\ UNCHANGED <<indexed, snap>>
  /\ StaticFrame

\* The call refresh(n) as the client makes it: "refreshNodeCatchUp" when n is
\* the only node whose out-arcs changed since it was refreshed.
refreshCase(n) == IF dirty = {n} THEN "refreshNodeCatchUp" ELSE "refreshNode"

\* ArcLookUp::refresh(Node n)
ArcRefreshNode ==
  /\ StaticIdle /\ mode = "arc"
  /\ \E n \in Nodes :
       /\ SetStatic(G, sRefreshNode(S, sorted[n], n))
       /\ Refreshed(G, n)
       /\ last' = Call(refreshCase(n), n, 0, 0, INVALID)
  /\ StaticFrame

\* ArcLookUp::refresh()
ArcRefresh ==
  /\ StaticIdle /\ mode = "arc"
  /\ SetStatic(G, sRefresh(S, sorted))
  /\ indexed' = [n \in Nodes |-> HistOf(G, n)]
  /\ snap' = [n \in Nodes |-> SnapOf(G, n)]
  /\ erased' = [n \in Nodes |-> FALSE]
  /\ dirty' = {} /\ muts' = 0
  /\ UNCHANGED sorted
  /\ last' = Call("refresh", 0, 0, 0, INVALID)
  /\ StaticFrame

\* AllArcLookUp::refresh(Node n)
AllRefreshNode ==
  /\ StaticIdle /\ mode = "all"
  /\ \E n \in Nodes :
       /\ SetStatic(G, allRefreshNode(G, S, sorted[n], n))
       /\ Refreshed(G, n)
       /\ last' = Call(refreshCase(n), n, 0, 0, INVALID)
  /\ StaticFrame

\* AllArcLookUp::refresh()
AllRefresh ==
  /\ StaticIdle /\ mode = "all"
  /\ LET r == allRefresh(G, S, sorted) IN
       /\ SetStatic(G, r.x)
       /\ st' = r.st
       /\ indexed' = [n \in Nodes |-> IF n \in r.done THEN HistOf(G, n) ELSE indexed[n]]
       /\ snap' = [n \in Nodes |-> IF n \in r.done THEN SnapOf(G, n) ELSE snap[n]]
       /\ erased' = [n \in Nodes |-> IF n \in r.done THEN FALSE ELSE erased[n]]
       /\ dirty' = dirty \ r.done
       /\ muts' = IF dirty \subseteq r.done THEN 0 ELSE muts
  /\ UNCHANGED sorted
  /\ last' = Call("allRefresh", 0, 0, 0, INVALID)
  /\ UNCHANGED <<mode, dvars, broken, less>>

\* ArcLookUp::operator()(s, t), also AllArcLookUp's with prev == INVALID
StaticLookup ==
  /\ StaticIdle
  /\ \E s \in Nodes, t \in Nodes :
       last' = Call("sLookup", s, t, 0, allLookup(G, S, s, t, INVALID))
  /\ UNCHANGED <<gvars, svars, hvars>>
  /\ StaticFrame

\* AllArcLookUp::operator()(s, t, prev), prev the arc the previous call for
\* (s, t) returned
StaticNext ==
  /\ StaticIdle /\ mode = "all"
  /\ last.op \in {"sLookup", "sNext"}
  /\ last.ret \in ArcIds
  /\ last' = Call("sNext", last.s, last.t, last.ret, allLookup(G, S, last.s, last.t, last.ret))
  /\ UNCHANGED <<gvars, svars, hvars>>
  /\ StaticFrame

NextStatic ==
  \/ GraphAdd \/ GraphErase
  \/ ArcRefreshNode \/ ArcRefresh \/ AllRefreshNode \/ AllRefresh
  \/ StaticLookup \/ StaticNext

SpecStatic == InitStatic /\ [][NextStatic]_vars

----------------------------------------------------------------------------
(* Construction and rebuilding over a digraph type whose Node::operator<    *)
(* is any relation lt on the nodes.                                         *)

\* ArcLess::operator()(a, b) with the node order lt
ArcLess(g, lt, a, b) == <<g.tgt[a], g.tgt[b]>> \in lt

\* lt is a strict weak order on the nodes T, as std::sort requires.
StrictWeak(lt, T) ==
  /\ \A a \in T : <<a, a>> \notin lt
  /\ \A a \in T, b \in T, c \in T :
        /\ (<<a, b>> \in lt /\ <<b, c>> \in lt) => <<a, c>> \in lt
        /\ (<<a, b>> \notin lt /\ <<b, a>> \notin lt /\ <<b, c>> \notin lt /\ <<c, b>> \notin lt)
              => (<<a, c>> \notin lt /\ <<c, a>> \notin lt)

\* The arrangements of the arcs A in a vector.
RECURSIVE Arrangements(_)
Arrangements(A) ==
  IF A = {} THEN {<<>>}
  ELSE UNION {{<<a>> \o w : w \in Arrangements(A \ {a})} : a \in A}

\* std::sort(v.begin(), v.end(), ArcLess(_g)) on the arcs A: a vector in
\* which no arc is less than an earlier one; without a strict weak order the
\* call is undefined and, when it returns, leaves any arrangement.
OrderSorts(g, lt, A) ==
  IF StrictWeak(lt, {g.tgt[a] : a \in A})
  THEN {w \in Arrangements(A) :
          \A i \in 1..Len(w), j \in 1..Len(w) : i < j => ~ArcLess(g, lt, w[j], w[i])}
  ELSE Arrangements(A)

OrderChoices(g, lt) ==
  {vs \in [Nodes -> UNION {Arrangements(OutArcs(g, n)) : n \in Nodes}] :
      \A n \in Nodes : vs[n] \in OrderSorts(g, lt, OutArcs(g, n))}

\* std::sort can also fail to return when the order is no strict weak order.
SortOutcomes(g, lt) ==
  IF \A n \in Nodes : StrictWeak(lt, {g.tgt[a] : a \in OutArcs(g, n)})
  THEN {"ok"} ELSE {"ok", "ub"}

\* DynArcLookUp::refresh(), vs[n] the sorted vector of node n.
RECURSIVE refreshWithFrom(_, _, _)
refreshWithFrom(m, vs, n) ==
  IF n > NumNodes THEN m ELSE refreshWithFrom(refreshNode(m, vs[n], n), vs, n + 1)

refreshWith(m, vs) == refreshWithFrom(m, vs, 1)

\* Any relation on the nodes; no index constructed yet.
InitOrder ==
  /\ mode = "order"
  /\ \E g \in InitGraphs : alive = g.alive /\ src = g.src /\ tgt = g.tgt
  /\ less \in SUBSET (Nodes \X Nodes)
  /\ head = NoHead /\ parent = NoArcs /\ left = NoArcs /\ right = NoArcs
  /\ sHead = NoHead /\ sLeft = NoArcs /\ sRight = NoArcs /\ sNext = NoArcs
  /\ st = "ok" /\ last = NoCall /\ broken = 0
  /\ indexed = NoHist /\ snap = NoHist /\ erased = [n \in Nodes |-> FALSE]
  /\ dirty = {} /\ muts = 0
  /\ sorted = [n \in Nodes |-> <<>>]

OrderFrame == UNCHANGED <<mode, gvars, less, broken, indexed, snap, erased, dirty, muts>>

\* ArcLookUp::refresh() under the order less: it returns with the trees built
\* from the vectors the sort left, or the sort does not return.
OrderStaticRefresh(op) ==
  /\ \E vs \in OrderChoices(G, less), out \in SortOutcomes(G, less) :
       /\ st' = out
       /\ sorted' = vs
       /\ LET x == IF out = "ok" THEN sRefresh(S, vs) ELSE S
          IN sHead' = x.head /\ sLeft' = x.left /\ sRight' = x.right /\ sNext' = x.next
  /\ last' = Call(op, 0, 0, 0, INVALID)
  /\ UNCHANGED dvars
  /\ OrderFrame

\* DynArcLookUp::refresh() under the order less
OrderDynRefresh(op) ==
  /\ \E vs \in OrderChoices(G, less), out \in SortOutcomes(G, less) :
       /\ st' = out
       /\ sorted' = vs
       /\ LET m == IF out = "ok" THEN refreshWith(M, vs) ELSE M
          IN head' = m.head /\ parent' = m.parent /\ left' = m.left /\ right' = m.right
  /\ last' = Call(op, 0, 0, 0, INVALID)
  /\ UNCHANGED svars
  /\ OrderFrame

\* ArcLookUp(g)
OrderArcLookUp ==
  mode = "order" /\ st = "ok" /\ last = NoCall /\ OrderStaticRefresh("ArcLookUp")

\* ArcLookUp::refresh() on the constructed index
OrderRefresh ==
  /\ mode = "order" /\ st = "ok" /\ last.op \in {"ArcLookUp", "orderRefresh"}
  /\ OrderStaticRefresh("orderRefresh")

\* DynArcLookUp(g)
OrderDynArcLookUp ==
  mode = "order" /\ st = "ok" /\ last = NoCall /\ OrderDynRefresh("DynArcLookUp")

\* DynArcLookUp::build() on the constructed index
OrderBuild ==
  /\ mode = "order" /\ st = "ok" /\ last.op \in {"DynArcLookUp", "orderBuild"}
  /\ OrderDynRefresh("orderBuild")

NextOrder == OrderArcLookUp \/ OrderRefresh \/ OrderDynArcLookUp \/ OrderBuild

SpecOrder == InitOrder /\ [][NextOrder]_vars

----------------------------------------------------------------------------
(* Properties of the look-up structures                                     *)

Arcs(g, s, t) == {a \in g.alive : g.src[a] = s /\ g.tgt[a] = t}

\* The arcs met by an in-order walk from arc a through the child links lf
\* and rt, in order; links are followed at most depth times.
RECURSIVE InOrder(_, _, _, _)
InOrder(lf, rt, a, depth) ==
  IF a = INVALID \/ depth = 0 THEN <<>>
  ELSE InOrder(lf, rt, lf[a], depth - 1) \o <<a>> \o InOrder(lf, rt, rt[a], depth - 1)

Range(w) == {w[i] : i \in 1..Len(w)}
NoRepeat(w) == Cardinality(Range(w)) = Len(w)

\* The tree of node n in the maps m, as its in-order sequence.
TreeSeq(m, n) == InOrder(m.left, m.right, m.head[n], Fuel)

Sorted(g, w) == \A i \in 1..(Len(w) - 1) : g.tgt[w[i]] <= g.tgt[w[i + 1]]

\* The tree of n holds exactly the out-arcs of n, each once.
TreeIsOutArcs(g, m, n) ==
  LET w == TreeSeq(m, n) IN NoRepeat(w) /\ Range(w) = OutArcs(g, n)

\* The tree of n is a search tree: no parent above the root, parent and
\* child links agree, targets in in-order do not decrease.
ValidTree(g, m, n) ==
  LET w == TreeSeq(m, n) IN
  /\ NoRepeat(w)
  /\ m.head[n] # INVALID => m.parent[m.head[n]] = INVALID
  /\ \A a \in Range(w) :
        /\ m.left[a] # INVALID => m.parent[m.left[a]] = a
        /\ m.right[a] # INVALID => m.right[a] # m.left[a] /\ m.parent[m.right[a]] = a
  /\ Sorted(g, w)

\* An arc from s to t when the digraph has one, INVALID when it has none.
RightAnswer(g, s, t, r) ==
  IF Arcs(g, s, t) = {} THEN r = INVALID ELSE r \in Arcs(g, s, t)

----------------------------------------------------------------------------
(* C1 *)

\* C1: every call operator()(s, t) of DynArcLookUp, made after any sequence
\* of notifications and queries, returns an arc from s to t when the digraph
\* has one and INVALID when it has none.
C1_LookupAnswers ==
  last.op = "lookup" => RightAnswer(G, last.s, last.t, last.ret)

----------------------------------------------------------------------------
(* C2 *)

\* C2: after any interleaving of notifications and queries, the arcs
\* reachable from _head[n] through _left and _right are exactly the current
\* out-arcs of n, none of them twice.
C2_TreeIsOutArcs ==
  (mode = "dyn" /\ st = "ok") => \A n \in Nodes : TreeIsOutArcs(G, M, n)

----------------------------------------------------------------------------
(* C3 *)

\* The values returned by a = findFirst(s, t); while (a != INVALID)
\* a = findNext(s, t, a), the closing INVALID included; Undef closes the
\* sequence when a call has no defined return, and the loop is cut after
\* k calls of findNext.
RECURSIVE enumFrom(_, _, _, _)
enumFrom(g, res, t, k) ==
  IF res.m.st # "ok" THEN <<Undef>>
  ELSE IF res.ret = INVALID \/ k = 0 THEN <<res.ret>>
  ELSE <<res.ret>> \o enumFrom(g, findNext(g, res.m, t, res.ret), t, k - 1)

Enumeration(g, m, s, t) == enumFrom(g, findFirst(g, m, s, t), t, MaxArcs + 1)

EnumeratesAll(g, m, s, t) ==
  LET k == Cardinality(Arcs(g, s, t))
      w == Enumeration(g, m, s, t)
  IN /\ k >= 1 =>
          /\ Len(w) = k + 1
          /\ w[k + 1] = INVALID
          /\ {w[i] : i \in 1..k} = Arcs(g, s, t)
     /\ (k = 0 /\ OutArcs(g, s) # {}) => w = <<INVALID>>

\* C3: in every reachable state, for k >= 1 arcs from s to t the loop
\* findFirst, findNext, ... returns k pairwise distinct arcs, exactly the
\* arcs from s to t, and then INVALID; for k = 0 and s with out-arcs,
\* findFirst returns INVALID.
C3_EnumerationComplete ==
  (mode = "dyn" /\ st = "ok") =>
    \A s \in Nodes, t \in Nodes : EnumeratesAll(G, M, s, t)

----------------------------------------------------------------------------
(* C6 *)

\* Every remaining out-arc b of s is found by operator()(s, target(b)), and
\* the tree is still a valid search tree of the out-arcs of s afterwards.
LookupsSucceed(g, m, s) ==
  \A b \in OutArcs(g, s) :
    LET res == lookup(g, m, s, g.tgt[b]) IN
    /\ res.m.st = "ok"
    /\ res.ret \in Arcs(g, s, g.tgt[b])
    /\ ValidTree(g, res.m, s)
    /\ TreeIsOutArcs(g, res.m, s)

\* C6: after the erase notification for an arc that was the root of its
\* source's tree and had both children, the tree is a valid search tree of
\* exactly the other out-arcs, and stays so after operator()(s, target(b))
\* for every remaining arc b, which returns an arc from s to target(b).
C6_EraseRootTwoChildren ==
  last.op \in {"eraseShallowRoot", "eraseDeepRoot"} =>
    /\ st = "ok"
    /\ ValidTree(G, M, last.s)
    /\ TreeIsOutArcs(G, M, last.s)
    /\ LookupsSucceed(G, M, last.s)

----------------------------------------------------------------------------
(* C7 *)

\* C7: on a node whose tree is empty, operator()(s, t) and findFirst(s, t)
\* return INVALID without reading the target of an invalid arc.  (_head[s]
\* is INVALID after the call exactly when the tree was empty before it.)
C7_EmptyTree ==
  (last.op \in {"lookup", "findFirst"} /\ head[last.s] = INVALID) =>
    st = "ok" /\ last.ret = INVALID

----------------------------------------------------------------------------
(* C8 *)

\* C8: right after the add notification for arc X, operator()(source(X),
\* target(X)) returns X.
C8_AddThenLookup ==
  last.op = "add" =>
    /\ st = "ok"
    /\ LET res == lookup(G, M, src[last.a], tgt[last.a])
       IN res.m.st = "ok" /\ res.ret = last.a

----------------------------------------------------------------------------
(* C9 *)

\* A call operator()(s, t) on a non-empty tree that returned INVALID.
MissStep == last'.op = "lookup" /\ last'.ret = INVALID /\ head[last'.s] # INVALID

MissFrame(s) ==
  /\ TreeSeq(M', s) = TreeSeq(M, s)
  /\ \A n \in Nodes \ {s} : head'[n] = head[n]
  /\ \A a \in alive : src[a] # s =>
        parent'[a] = parent[a] /\ left'[a] = left[a] /\ right'[a] = right[a]

\* C9: operator()(s, t) on a non-empty tree without an arc from s to t
\* returns INVALID and leaves the arcs of the tree of s and their in-order
\* sequence, _head of the other nodes and the links of arcs of other
\* sources as they were.
C9_MissKeepsArcs == [][MissStep => MissFrame(last'.s)]_vars

----------------------------------------------------------------------------
(* AllArcLookUp: the loop  for(e = ae(u,v); e != INVALID; e = ae(u,v,e))    *)

RECURSIVE sEnumFrom(_, _, _, _, _, _)
sEnumFrom(g, x, s, t, e, k) ==
  IF e \notin ArcIds \/ k = 0 THEN <<>>
  ELSE <<e>> \o sEnumFrom(g, x, s, t, allLookup(g, x, s, t, e), k - 1)

\* The arcs the loop visits, cut after MaxArcs + 1 rounds.
sEnumeration(g, x, s, t) ==
  sEnumFrom(g, x, s, t, allLookup(g, x, s, t, INVALID), MaxArcs + 1)

\* C4: with an AllArcLookUp that is up to date with the digraph, the loop
\* e = ae(u,v); e = ae(u,v,e) visits every arc from u to v exactly once and
\* then gets INVALID, for every pair of nodes.
C4_AllArcsEnumerated ==
  (mode = "all" /\ dirty = {}) =>
     \A s \in Nodes, t \in Nodes :
        LET w == sEnumeration(G, S, s, t)
        IN NoRepeat(w) /\ Range(w) = Arcs(G, s, t)

----------------------------------------------------------------------------
(* ArcLookUp                                                                *)

\* C5: after construction or refresh(), with no change of the digraph since,
\* ArcLookUp's operator()(s,t) returns an arc from s to t when the digraph
\* has one and INVALID when it has none, for every pair of nodes.
C5_StaticLookupAnswers ==
  (mode = "arc" /\ dirty = {}) =>
     \A s \in Nodes, t \in Nodes : RightAnswer(G, s, t, sLookup(G, S, s, t))

\* refresh() has just run on a digraph where one node has parallel arcs and
\* another node has no out-arc.
C5_Witness ==
  /\ mode = "arc" /\ last.op = "refresh" /\ dirty = {}
  /\ \E s \in Nodes, t \in Nodes :
        /\ Cardinality(Arcs(G, s, t)) >= 2
        /\ sLookup(G, S, s, t) \in Arcs(G, s, t)
  /\ \E s \in Nodes : OutArcs(G, s) = {} /\ \A t \in Nodes : sLookup(G, S, s, t) = INVALID

\* The arcs some tree held when its node was last refreshed.
Indexed == UNION {indexed[n] : n \in Nodes}

\* g.addArc changes no _head and no _left or _right of an indexed arc.
AddLeavesIndex ==
  (mode = "arc" /\ last'.op = "graphAdd") =>
     /\ sHead' = sHead
     /\ \A a \in Indexed : sLeft'[a] = sLeft[a] /\ sRight'[a] = sRight[a]

\* The first state after refresh(s) or refresh(): the look-ups of the
\* refreshed nodes answer for the digraph as it is.
FreshAfterRefresh ==
  /\ (mode = "arc" /\ last.op \in {"refreshNode", "refreshNodeCatchUp"}) =>
        \A t \in Nodes : RightAnswer(G, last.s, t, sLookup(G, S, last.s, t))
  /\ (mode = "arc" /\ last.op = "refresh") =>
        \A s \in Nodes, t \in Nodes : RightAnswer(G, s, t, sLookup(G, S, s, t))

\* An arc from s to t exists now and none did when s was last refreshed.
AddedSince(s, t) == Arcs(G, s, t) # {} /\ t \notin snap[s]

StaleMissAlways ==
  mode = "arc" =>
     \A s \in Nodes, t \in Nodes : AddedSince(s, t) => sLookup(G, S, s, t) = INVALID

StaleMissUnlessErased ==
  mode = "arc" =>
     \A s \in Nodes, t \in Nodes :
        (AddedSince(s, t) /\ ~erased[s]) => sLookup(G, S, s, t) = INVALID

\* C10 as stated: adding an arc s->t where none was at the last refresh
\* changes no _head and no link of an indexed arc, operator()(s,t) returns
\* INVALID in every state until refresh() or refresh(s), and the new arc in
\* the first state after it.
C10_AsStated == [][AddLeavesIndex]_vars /\ []StaleMissAlways /\ []FreshAfterRefresh

\* C10: as above, with operator()(s,t) returning INVALID until the refresh
\* provided that no arc the tree of s held at its last refresh has been
\* erased from the digraph since.
C10_NoAutoDetection ==
  [][AddLeavesIndex]_vars /\ []StaleMissUnlessErased /\ []FreshAfterRefresh

\* A look-up of (s,t) has just missed an arc from s to t that was added after
\* the last refresh of s, and no arc of that tree was erased.
C10_Witness ==
  /\ mode = "arc" /\ last.op = "sLookup" /\ last.ret = INVALID
  /\ AddedSince(last.s, last.t) /\ ~erased[last.s]
  /\ indexed[last.s] # {}

\* C11: when n is the only node whose out-arcs changed since the index was
\* up to date, then after refresh(n) operator()(s,t) returns an arc from s to
\* t when the digraph has one and INVALID when it has none, for every pair
\* of nodes, s # n included.
C11_RefreshNodeSuffices ==
  (mode = "arc" /\ last.op = "refreshNodeCatchUp") =>
     \A s \in Nodes, t \in Nodes : RightAnswer(G, s, t, sLookup(G, S, s, t))

\* refresh(n) has just caught up with the changes at n; n and another node
\* have out-arcs and a look-up in the other node's tree finds one.
C11_Witness ==
  /\ mode = "arc" /\ last.op = "refreshNodeCatchUp"
  /\ OutArcs(G, last.s) # {}
  /\ \E s \in Nodes \ {last.s} : \E t \in Nodes : sLookup(G, S, s, t) \in Arcs(G, s, t)

\* The arc that follows a in the sequence w when it has the target of a,
\* INVALID otherwise.
NextSame(g, w, a) ==
  LET i == CHOOSE k \in 1..Len(w) : w[k] = a
  IN IF i < Len(w) /\ g.tgt[w[i + 1]] = g.tgt[a] THEN w[i + 1] ELSE INVALID

\* The tree of n holds the out-arcs of n in the order of their targets and
\* _next leads from each to the following arc of the same target.
StaticTreeReflects(g, x, n) ==
  LET w == InOrder(x.left, x.right, x.head[n], Fuel) IN
  /\ NoRepeat(w) /\ Range(w) = OutArcs(g, n) /\ Sorted(g, w)
  /\ \A a \in Range(w) : x.next[a] = NextSame(g, w, a)

\* C12: after AllArcLookUp::refresh() returns, whatever changes the digraph
\* went through, the tree of every node and the _next entry of every arc
\* reflect the digraph as it is.
C12_AllRefreshRebuilds ==
  (mode = "all" /\ last.op = "allRefresh") =>
     st = "ok" /\ \A n \in Nodes : StaticTreeReflects(G, S, n)

\* The digraph and the static maps after the step.
GAfter == [alive |-> alive', src |-> src', tgt |-> tgt']
SAfter == [head |-> sHead', left |-> sLeft', right |-> sRight', next |-> sNext']

\* The step is a call of refresh() that follows a call of refresh().
RefreshAgain ==
  /\ last.op \in {"refresh", "allRefresh"}
  /\ last'.op \in {"refresh", "allRefresh"}

\* Every look-up and every chain step answers after the step as before it.
SameAnswers ==
  /\ st' = "ok"
  /\ \A s \in Nodes, t \in Nodes : sLookup(GAfter, SAfter, s, t) = sLookup(G, S, s, t)
  /\ mode = "all" =>
       \A s \in Nodes, t \in Nodes, prev \in alive :
          allLookup(GAfter, SAfter, s, t, prev) = allLookup(G, S, s, t, prev)

\* C13: refresh() called twice in a row, the digraph unchanged in between,
\* leaves every look-up (s,t) and every chain step (s,t,prev) with the same
\* result after the second call as after the first, for ArcLookUp and for
\* AllArcLookUp.
C13_RefreshIdempotent == [][RefreshAgain => SameAnswers]_vars

\* The same for ArcLookUp alone.
ArcRefreshIdempotent == [][(mode = "arc" /\ RefreshAgain) => SameAnswers]_vars

\* lt is a strict total order of the nodes.
TotalOrder(lt) ==
  /\ StrictWeak(lt, Nodes)
  /\ \A a \in Nodes, b \in Nodes : a # b => (<<a, b>> \in lt \/ <<b, a>> \in lt)

\* Every tree of the static maps and of the dynamic maps is in search order
\* under lt: no arc is less than one that precedes it in in-order.
InSearchOrder(g, lt) ==
  \A n \in Nodes :
     LET w == InOrder(sLeft, sRight, sHead[n], Fuel)
         u == InOrder(left, right, head[n], Fuel)
     IN /\ \A i \in 1..Len(w), j \in 1..Len(w) : i < j => ~ArcLess(g, lt, w[j], w[i])
        /\ \A i \in 1..Len(u), j \in 1..Len(u) : i < j => ~ArcLess(g, lt, u[j], u[i])

\* C14: over a node order that is not a total order, construction and
\* build/refresh end in a configuration error; they do not complete.
C14_OrderChecked ==
  (mode = "order" /\ last # NoCall /\ ~TotalOrder(less)) => st = "configError"

\* The same with the weaker demand that a call which completes leaves every
\* tree in search order.
OrderNeverCorrupts ==
  (mode = "order" /\ last # NoCall /\ st = "ok") => InSearchOrder(G, less)

\* Parent and child links of the current arcs agree: X is the parent of c
\* exactly when X is a current arc with the source of c that has c as its
\* left or right child.
ParentChildAgree(g, m) ==
  \A c \in g.alive :
     /\ m.parent[c] \in g.alive \cup {INVALID}
     /\ \A X \in ArcIds :
           m.parent[c] = X <=>
              (X \in g.alive /\ g.src[X] = g.src[c] /\ (m.left[X] = c \/ m.right[X] = c))

\* C15: after construction and after every notification and every query of
\* DynArcLookUp, for every current arc c and every arc X, _parent[c] == X
\* exactly when X is a current arc of the same tree with c as a child; no
\* current arc has an erased arc as its parent.
C15_ParentChildConsistent ==
  (mode = "dyn" /\ st = "ok") => ParentChildAgree(G, M)

\* DynArcLookUp, ArcLookUp and AllArcLookUp side by side.
SpecLookUps == (InitDyn \/ InitStatic) /\ [][NextDyn \/ NextStatic]_vars

\* The arcs below arc a through the child links lf and rt, a included.
SubTree(lf, rt, a) == Range(InOrder(lf, rt, a, Fuel))

\* All trees this state must have in search order, as <<lf, rt, roots>>: the
\* trees of DynArcLookUp, or those trees of the static index whose nodes
\* were refreshed after the last change of their out-arcs.
OrderedTrees ==
  IF mode = "dyn" THEN <<left, right, {head[n] : n \in Nodes} \ {INVALID}>>
  ELSE <<sLeft, sRight, {sHead[n] : n \in Nodes \ dirty} \ {INVALID}>>

\* For every arc X of those trees: left subtree below target(X) when strict,
\* not above it otherwise; right subtree not below target(X).
SearchOrdered(strict) ==
  LET lf == OrderedTrees[1]
      rt == OrderedTrees[2]
  IN \A r \in OrderedTrees[3] : \A X \in SubTree(lf, rt, r) :
        /\ \A a \in SubTree(lf, rt, lf[X]) :
              IF strict THEN tgt[a] < tgt[X] ELSE tgt[a] <= tgt[X]
        /\ \A a \in SubTree(lf, rt, rt[X]) : tgt[a] >= tgt[X]

----------------------------------------------------------------------------
(* The arc a query leaves at the root                                       *)

\* The arc at which the descent of operator()(s, t) stops: the first arc it
\* meets with target t, or the arc whose child on the side of t is missing.
RECURSIVE LastVisited(_, _, _, _, _)
LastVisited(g, m, t, a, fuel) ==
  IF a = INVALID \/ fuel = 0 THEN INVALID
  ELSE IF g.tgt[a] = t THEN a
  ELSE LET c == IF t < g.tgt[a] THEN m.left[a] ELSE m.right[a]
       IN IF c = INVALID THEN a ELSE LastVisited(g, m, t, c, fuel - 1)

IsRoot(g, m, v) == m.head[g.src[v]] = v /\ m.parent[v] = INVALID

\* operator()(s, t) runs on a non-empty tree of s of a well-formed index.
LookupOnTree ==
  /\ mode = "dyn" /\ st = "ok" /\ Linked(G, M)
  /\ last'.op = "lookup"
  /\ head[last'.s] # INVALID

LookupLeavesLastAtRoot ==
  LET v == LastVisited(G, M, last'.t, head[last'.s], Fuel) IN
  /\ st' = "ok"
  /\ v \in alive
  /\ head'[last'.s] = v /\ parent'[v] = INVALID
  /\ last'.ret = IF tgt[v] = last'.t THEN v ELSE INVALID

\* splay(v) on any arc of a well-formed index makes v the root of its tree.
SplayMakesRoot ==
  (mode = "dyn" /\ st = "ok" /\ Linked(G, M)) =>
     \A v \in alive :
        LET m == splay(G, M, v) IN m.st = "ok" /\ IsRoot(G, m, v)

\* C17: after operator()(s, t) on a non-empty, well-formed tree of s the
\* arc the descent visited last (the returned arc on a hit, the arc at which
\* the descent fell off on a miss) is the root of the tree of s: _head[s] is
\* that arc and its _parent is INVALID; and splay(v) leaves
\* _head[source(v)] == v and _parent[v] == INVALID for every arc v.
C17_LastVisitedIsRoot ==
  [][LookupOnTree => LookupLeavesLastAtRoot]_vars /\ []SplayMakesRoot

\* A miss has just splayed the arc at which the descent fell off, and that
\* arc has a child under it.
C17_Witness ==
  /\ mode = "dyn" /\ st = "ok" /\ Linked(G, M)
  /\ last.op = "lookup" /\ last.ret = INVALID
  /\ head[last.s] \in alive
  /\ left[head[last.s]] # INVALID \/ right[head[last.s]] # INVALID

----------------------------------------------------------------------------
(* findFirst                                                                *)

WellFormedTree(g, m, n) ==
  Linked(g, m) /\ ValidTree(g, m, n) /\ TreeIsOutArcs(g, m, n)

\* The first arc of the sequence w that has target t.
FirstWithTarget(g, w, t) ==
  LET I == {i \in 1..Len(w) : g.tgt[w[i]] = t}
  IN w[CHOOSE i \in I : \A j \in I : i <= j]

\* The arc at which the descent of findFirst(s, t) stops.
RECURSIVE FirstLastVisited(_, _, _, _, _)
FirstLastVisited(g, m, t, a, fuel) ==
  IF a = INVALID \/ fuel = 0 THEN INVALID
  ELSE LET c == IF g.tgt[a] < t THEN m.right[a] ELSE m.left[a]
       IN IF c = INVALID THEN a ELSE FirstLastVisited(g, m, t, c, fuel - 1)

\* findFirst(s, t) runs on a well-formed tree of s that holds an arc s->t.
FindFirstOnTree ==
  /\ mode = "dyn" /\ st = "ok" /\ last'.op = "findFirst"
  /\ WellFormedTree(G, M, last'.s)
  /\ Arcs(G, last'.s, last'.t) # {}

FindFirstReturnsFirst ==
  /\ st' = "ok"
  /\ last'.ret = FirstWithTarget(G, TreeSeq(M, last'.s), last'.t)

\* C18 as stated: findFirst(s, t), on a well-formed tree holding an arc
\* s->t, returns the first arc of target t in in-order, and the returned
\* arc is the root of the tree of s after the call.
C18_AsStated ==
  [][FindFirstOnTree =>
       FindFirstReturnsFirst /\ head'[last'.s] = last'.ret]_vars

\* C18: findFirst(s, t), on a well-formed tree holding an arc s->t, returns
\* the first arc of target t in in-order; the arc it splays, the root of the
\* tree of s after the call, is the arc the descent visited last, which is
\* the returned arc or an arc of smaller target that came just before it
\* in in-order.
C18_FindFirst ==
  [][FindFirstOnTree =>
       LET v == FirstLastVisited(G, M, last'.t, head[last'.s], Fuel)
           w == TreeSeq(M, last'.s)
       IN /\ FindFirstReturnsFirst
          /\ v \in alive /\ head'[last'.s] = v /\ parent'[v] = INVALID
          /\ \/ v = last'.ret
             \/ /\ tgt[v] < last'.t
                /\ \E i \in 1..(Len(w) - 1) : w[i] = v /\ w[i + 1] = last'.ret]_vars

\* findFirst has returned an arc s->t that has a parallel arc, and the arc
\* it splayed to the root is another one, of smaller target.
C18_Witness ==
  /\ mode = "dyn" /\ st = "ok" /\ last.op = "findFirst"
  /\ WellFormedTree(G, M, last.s)
  /\ last.ret \in Arcs(G, last.s, last.t)
  /\ Cardinality(Arcs(G, last.s, last.t)) >= 2
  /\ head[last.s] # last.ret /\ tgt[head[last.s]] < last.t

----------------------------------------------------------------------------
(* erase of an arc with both children                                       *)

MAfter == [head |-> head', parent |-> parent', left |-> left', right |-> right',
           st |-> st']

\* The sequence w without the arc a.
RECURSIVE Without(_, _)
Without(w, a) ==
  IF w = <<>> THEN <<>>
  ELSE IF Head(w) = a THEN Without(Tail(w), a)
  ELSE <<Head(w)>> \o Without(Tail(w), a)

\* erase(arc) runs on a well-formed index for an arc with both children.
EraseBothChildren ==
  /\ mode = "dyn" /\ st = "ok" /\ Linked(G, M)
  /\ last'.op \in {"eraseShallow", "eraseShallowRoot", "eraseDeep", "eraseDeepRoot"}

\* The links of the predecessor e after the replacement step, read where no
\* splay follows it (e is the left child of the erased arc).
PredecessorInPlace ==
  LET a == last'.a
      e == left[a]
  IN last'.op \in {"eraseShallow", "eraseShallowRoot"} =>
       /\ parent'[e] = parent[a]
       /\ right'[e] = right[a] /\ parent'[right[a]] = e
       /\ IF parent[a] = INVALID THEN head'[last'.s] = e
          ELSE left'[parent[a]] = e \/ right'[parent[a]] = e

\* C19: erase of an arc with both children puts its in-order predecessor e
\* in its place: _parent[e] is the former parent of the arc (INVALID for a
\* root), _right[e] is the former right child, whose parent is e, the child
\* slot of the former parent (or _head) holds e, and the in-order sequence of
\* the tree is the previous one without the erased arc.
C19_EraseBothChildren ==
  [][EraseBothChildren =>
       /\ st' = "ok"
       /\ PredecessorInPlace
       /\ TreeSeq(MAfter, last'.s) = Without(TreeSeq(M, last'.s), last'.a)]_vars

\* The part of C19 that the code keeps: the links downwards.
C19_InOrderKept ==
  [][EraseBothChildren =>
       TreeSeq(MAfter, last'.s) = Without(TreeSeq(M, last'.s), last'.a)]_vars

----------------------------------------------------------------------------
(* build                                                                    *)

\* Maps in which every entry of _head, _parent, _left and _right holds k.
Scrambled(k) ==
  [head |-> [n \in Nodes |-> k], parent |-> [a \in ArcIds |-> k],
   left |-> [a \in ArcIds |-> k], right |-> [a \in ArcIds |-> k], st |-> "ok"]

\* The maps m index the digraph g as build() should leave them.
Rebuilt(g, m) ==
  /\ m.st = "ok"
  /\ Linked(g, m)
  /\ \A n \in Nodes :
        /\ ValidTree(g, m, n) /\ TreeIsOutArcs(g, m, n)
        /\ OutArcs(g, n) = {} => m.head[n] = INVALID

\* C20: after build() and after construction, whatever _head, _parent,
\* _left and _right held before, the tree of every node holds exactly the
\* current out-arcs of the node with non-decreasing targets in in-order, the
\* _parent of every root is INVALID, _parent[c] == X for every child c of X,
\* and a node without out-arcs has _head == INVALID.
C20_BuildRebuilds ==
  (mode = "dyn" /\ last.op \in {"build", "construct"}) =>
     /\ Rebuilt(G, M)
     /\ \A k \in {INVALID} \cup ArcIds :
           \A m \in refresh(G, Scrambled(k)) : Rebuilt(G, m)

\* build() has just run on an index whose links disagreed (an erased arc was
\* a parent), for a digraph with a node of two or more out-arcs and a node
\* of none.
C20_Witness ==
  /\ mode = "dyn" /\ st = "ok" /\ last.op = "build" /\ broken = 1
  /\ \E n \in Nodes : Cardinality(OutArcs(G, n)) >= 2
  /\ \E n \in Nodes : OutArcs(G, n) = {} /\ head[n] = INVALID

----------------------------------------------------------------------------
(* The _next chain after refresh(n)                                         *)

AfterRefreshNode == last.op \in {"refreshNode", "refreshNodeCatchUp"}

\* C21: after AllArcLookUp::refresh(n), for every out-arc a of n, _next[a]
\* is the in-order successor of a in the tree of n when there is one and it
\* has the target of a, and INVALID otherwise (so also for the last arc).
C21_NextIsSuccessor ==
  (mode = "all" /\ AfterRefreshNode) =>
     LET w == InOrder(sLeft, sRight, sHead[last.s], Fuel) IN
     /\ Range(w) = OutArcs(G, last.s) /\ NoRepeat(w)
     /\ \A a \in OutArcs(G, last.s) : sNext[a] = NextSame(G, w, a)

\* refresh(n) has run on a node with two parallel arcs and a third arc of
\* another target: one _next leads to the parallel arc, two are INVALID.
C21_Witness ==
  /\ mode = "all" /\ st = "ok" /\ AfterRefreshNode
  /\ Cardinality(OutArcs(G, last.s)) = 3
  /\ \E a, b, c \in OutArcs(G, last.s) :
        /\ a # b /\ tgt[a] = tgt[b] /\ tgt[c] # tgt[a]
        /\ sNext[a] = b /\ sNext[b] = INVALID /\ sNext[c] = INVALID

----------------------------------------------------------------------------
(* The shape of the tree refreshRec builds, for one node with up to MaxDeg   *)
(* parallel out-arcs.                                                       *)

\* The most out-arcs the node has.
MaxDeg == 8

Slots == 1..MaxDeg

RECURSIVE Ascending(_)
Ascending(T) ==
  IF T = {} THEN <<>>
  ELSE LET x == CHOOSE y \in T : \A z \in T : y <= z
       IN <<x>> \o Ascending(T \ {x})

Reversed(w) == [i \in 1..Len(w) |-> w[Len(w) + 1 - i]]

\* The vectors handed to refreshRec: the arcs all have one target, so every
\* order of them is one the sort can leave; those ascending and descending
\* in the ids are tried.
BuildInputs ==
  {Ascending(T) : T \in SUBSET Slots \ {{}}}
    \cup {Reversed(Ascending(T)) : T \in SUBSET Slots \ {{}}}

NoSlots == [a \in Slots |-> INVALID]

InitBuild ==
  /\ mode = "build"
  /\ \E v \in BuildInputs :
       /\ alive = Range(v)
       /\ sorted = [n \in Nodes |-> IF n = 1 THEN v ELSE <<>>]
  /\ src = [a \in Slots |-> 1] /\ tgt = [a \in Slots |-> 1]
  /\ head = NoHead /\ parent = NoSlots /\ left = NoSlots /\ right = NoSlots
  /\ sHead = NoHead /\ sLeft = NoSlots /\ sRight = NoSlots /\ sNext = NoSlots
  /\ st = "ok" /\ last = NoCall /\ broken = 0
  /\ indexed = NoHist /\ snap = NoHist /\ erased = [n \in Nodes |-> FALSE]
  /\ dirty = {} /\ muts = 0
  /\ less = NodeLess

BuildFrame ==
  UNCHANGED <<mode, gvars, st, broken, less, indexed, snap, erased, dirty, muts, sorted>>

\* DynArcLookUp::refresh(), the round of its loop for the node
BuildDyn ==
  /\ mode = "build"
  /\ LET m == refreshNode(M, sorted[1], 1)
     IN head' = m.head /\ parent' = m.parent /\ left' = m.left /\ right' = m.right
  /\ last' = Call("dynRefresh", 1, 0, 0, INVALID)
  /\ UNCHANGED svars
  /\ BuildFrame

\* ArcLookUp::refresh(Node) for the node
BuildStatic ==
  /\ mode = "build"
  /\ LET x == sRefreshNode(S, sorted[1], 1)
     IN sHead' = x.head /\ sLeft' = x.left /\ sRight' = x.right /\ sNext' = x.next
  /\ last' = Call("staticRefresh", 1, 0, 0, INVALID)
  /\ UNCHANGED dvars
  /\ BuildFrame

NextBuild == BuildDyn \/ BuildStatic

SpecBuild == InitBuild /\ [][NextBuild]_vars

\* The number of arcs on the longest path from a down to a leaf.
RECURSIVE Height(_, _, _, _)
Height(lf, rt, a, depth) ==
  IF a = INVALID \/ depth = 0 THEN 0
  ELSE LET hl == Height(lf, rt, lf[a], depth - 1)
           hr == Height(lf, rt, rt[a], depth - 1)
       IN 1 + (IF hl > hr THEN hl ELSE hr)

Size(lf, rt, a) == Len(InOrder(lf, rt, a, Fuel))

\* floor(log2(d)) for d >= 1
RECURSIVE Log2(_)
Log2(d) == IF d <= 1 THEN 0 ELSE 1 + Log2(d \div 2)

\* The tree under root r is the median-split tree of the vector v.
HeightMinimal(lf, rt, r, v) ==
  /\ InOrder(lf, rt, r, Fuel) = v
  /\ NoRepeat(v)
  /\ Height(lf, rt, r, Fuel) = Log2(Len(v)) + 1
  /\ \A a \in Range(v) :
        LET dl == Size(lf, rt, lf[a])
            dr == Size(lf, rt, rt[a])
        IN dl - dr \in {-1, 0, 1}

\* C22: for a node with d >= 1 out-arcs, the tree refreshRec(v, 0, d - 1)
\* builds (in DynArcLookUp and in ArcLookUp) holds each of the d arcs once,
\* in the order of v, has height floor(log2(d)) + 1, and the sizes of the
\* left and right subtrees of every arc differ by at most 1.
C22_HeightMinimal ==
  /\ (mode = "build" /\ last.op \in {"dynRefresh", "staticRefresh"} /\ head[1] # INVALID)
        => HeightMinimal(left, right, head[1], sorted[1])
  /\ (mode = "build" /\ last.op \in {"dynRefresh", "staticRefresh"} /\ sHead[1] # INVALID)
        => HeightMinimal(sLeft, sRight, sHead[1], sorted[1])

\* Both classes have built the tree of a node with MaxDeg out-arcs, and it
\* has a height above 3.
C22_Witness ==
  /\ mode = "build" /\ Len(sorted[1]) = MaxDeg
  /\ head[1] # INVALID /\ sHead[1] # INVALID
  /\ Height(left, right, head[1], Fuel) > 3
  /\ Height(sLeft, sRight, sHead[1], Fuel) = Height(left, right, head[1], Fuel)

----------------------------------------------------------------------------
(* clear                                                                    *)

\* Maps as clear() can leave them: every _head INVALID, and the entries of
\* _parent, _left and _right, which clear() does not touch, holding p, l, r.
Stale(p, l, r) ==
  [head |-> NoHead, parent |-> [a \in ArcIds |-> p],
   left |-> [a \in ArcIds |-> l], right |-> [a \in ArcIds |-> r], st |-> "ok"]

\* One add notification from each digraph and maps of P.
AddOne(P) ==
  UNION {{[g |-> gAdd(p.g, a, s, t), m |-> insert(gAdd(p.g, a, s, t), p.m, a)] :
            a \in ArcIds \ p.g.alive, s \in Nodes, t \in Nodes} : p \in P}

\* The digraphs and maps that add notifications lead to from those of P,
\* after at most n of them.
RECURSIVE AfterAdds(_, _)
AfterAdds(P, n) == IF n = 0 THEN P ELSE P \cup AfterAdds(AddOne(P), n - 1)

AfterClear ==
  AfterAdds({[g |-> G, m |-> Stale(p, l, r)] :
               p \in {INVALID} \cup ArcIds, l \in {INVALID} \cup ArcIds,
               r \in {INVALID} \cup ArcIds}, MaxArcs)

\* C23: after clear() every _head is INVALID; and after any add
\* notifications that follow it, whatever _parent, _left and _right held at
\* the clear, the tree of every node holds exactly the arcs added since, with
\* links that agree, so no entry left over from before is reachable.
C23_ClearThenAdd ==
  (mode = "dyn" /\ last.op = "clear") =>
     /\ st = "ok" /\ alive = {} /\ head = NoHead
     /\ \A q \in AfterClear :
           /\ q.m.st = "ok"
           /\ Linked(q.g, q.m)
           /\ \A n \in Nodes : TreeIsOutArcs(q.g, q.m, n) /\ ValidTree(q.g, q.m, n)

\* clear() has just run, and the adds that can follow it lead to a tree of
\* MaxArcs arcs over left-over entries that were not INVALID.
C23_Witness ==
  /\ mode = "dyn" /\ st = "ok" /\ last.op = "clear" /\ head = NoHead
  /\ \E q \in AfterClear :
        /\ q.g.alive = ArcIds
        /\ \E n \in Nodes : Len(TreeSeq(q.m, n)) = MaxArcs

----------------------------------------------------------------------------
(* refresh(n) and the other nodes                                           *)

\* The arcs operator()(s, t, prev) hands out from arc a on, following _next
\* at most fuel times.
RECURSIVE ChainFrom(_, _, _)
ChainFrom(x, a, fuel) ==
  IF a \notin ArcIds \/ fuel = 0 THEN <<>>
  ELSE <<a>> \o ChainFrom(x, x.next[a], fuel - 1)

Chain(g, x, s, t) == ChainFrom(x, sLookup(g, x, s, t), Fuel)

\* The step is a call refresh(n) of ArcLookUp or AllArcLookUp.
RefreshNodeStep ==
  /\ mode \in {"arc", "all"} /\ st = "ok"
  /\ last'.op \in {"refreshNode", "refreshNodeCatchUp"}

\* _head of the other nodes and the entries of the arcs that do not leave
\* last'.s are as before the step.
OthersUntouched ==
  /\ \A m \in Nodes \ {last'.s} : sHead'[m] = sHead[m]
  /\ \A a \in alive : src[a] # last'.s =>
        sLeft'[a] = sLeft[a] /\ sRight'[a] = sRight[a] /\ sNext'[a] = sNext[a]

\* Look-ups and chains of the nodes in Ms answer after the step as before.
SameAnswersAt(Ms) ==
  \A m \in Ms, t \in Nodes :
     /\ sLookup(GAfter, SAfter, m, t) = sLookup(G, S, m, t)
     /\ mode = "all" => Chain(GAfter, SAfter, m, t) = Chain(G, S, m, t)

\* The nodes other than n whose tree holds no arc that leaves n.
Apart(n) ==
  {m \in Nodes \ {n} :
     \A a \in Range(InOrder(sLeft, sRight, sHead[m], Fuel)) : src[a] # n}

----------------------------------------------------------------------------
(* DynArcLookUp under add notifications and queries only                    *)

NextNoErase == Add \/ AddBatch \/ Lookup \/ FindFirst \/ FindNext

SpecNoErase == InitDyn /\ [][NextNoErase]_vars

\* C25: after construction and any sequence of add notifications and
\* operator()/findFirst/findNext queries, the in-order walk of the tree of
\* every node lists each of its out-arcs once, with non-decreasing targets
\* (arcs of equal target may sit in a left subtree).
C25_WeakOrder ==
  mode = "dyn" =>
     \A n \in Nodes :
        /\ TreeIsOutArcs(G, M, n)
        /\ Sorted(G, TreeSeq(M, n))

\* add has just put an arc at the root of a tree of three arcs, with an arc
\* of the same target as its left child and a smaller target in the tree.
C25_Witness ==
  /\ mode = "dyn" /\ st = "ok" /\ last.op = "add"
  /\ last.a \in alive /\ head[src[last.a]] = last.a
  /\ left[last.a] \in alive /\ tgt[left[last.a]] = tgt[last.a]
  /\ Len(TreeSeq(M, src[last.a])) = 3
  /\ \E b \in OutArcs(G, src[last.a]) : tgt[b] < tgt[last.a]

----------------------------------------------------------------------------
(* Rotations                                                                *)

\* The arc without parent above a; links are followed at most fuel times.
RECURSIVE RootOf(_, _, _)
RootOf(m, a, fuel) ==
  IF m.parent[a] = INVALID \/ fuel = 0 THEN a
  ELSE RootOf(m, m.parent[a], fuel - 1)

WholeTree(m, v) == InOrder(m.left, m.right, RootOf(m, v, Fuel), Fuel)

\* From the maps m0 the rotation of v has led to m1: the arcs of the tree of
\* v are in the same in-order sequence, parent and child links agree, and
\* _head and the links of the arcs of the other nodes are as they were.
ShapeOnly(g, m0, m1, v) ==
  /\ m1.st = "ok"
  /\ WholeTree(m1, v) = WholeTree(m0, v)
  /\ ParentChildAgree(g, m1)
  /\ \A n \in Nodes \ {g.src[v]} : m1.head[n] = m0.head[n]
  /\ \A a \in ArcIds : g.src[a] # g.src[v] =>
        /\ m1.parent[a] = m0.parent[a]
        /\ m1.left[a] = m0.left[a]
        /\ m1.right[a] = m0.right[a]

\* C26: for any arc v of a well-formed tree, zig(v) (v a left child),
\* zag(v) (v a right child) and splay(v) leave the in-order sequence of the
\* arcs of the tree unchanged, keep parent and child links consistent, and
\* change neither _head nor any link of the arcs of the other nodes' trees.
C26_RotationsKeepOrder ==
  (mode = "dyn" /\ st = "ok" /\ Linked(G, M)) =>
     \A v \in alive :
        /\ (parent[v] # INVALID /\ left[parent[v]] = v) =>
              ShapeOnly(G, M, zig(M, v), v) /\ zig(M, v).head = head
        /\ (parent[v] # INVALID /\ right[parent[v]] = v) =>
              ShapeOnly(G, M, zag(M, v), v) /\ zag(M, v).head = head
        /\ ShapeOnly(G, M, splay(G, M, v), v)
        /\ TreeSeq(splay(G, M, v), src[v]) = TreeSeq(M, src[v])

\* A query has splayed in a tree in which an arc still has a parent, so that
\* a rotation applies, while another node has a tree of its own.
C26_Witness ==
  /\ mode = "dyn" /\ st = "ok" /\ Linked(G, M)
  /\ last.op \in {"lookup", "findFirst", "findNext"}
  /\ \E v \in alive : parent[v] # INVALID
  /\ \E n \in Nodes, k \in Nodes : n # k /\ head[n] # INVALID /\ head[k] # INVALID

\* Three arcs of one node in a row after a query: the double rotations
\* apply to the lowest.
C26_WitnessDeep ==
  /\ mode = "dyn" /\ st = "ok" /\ Linked(G, M)
  /\ last.op \in {"lookup", "findFirst", "findNext"}
  /\ \E v \in alive : parent[v] # INVALID /\ parent[parent[v]] # INVALID

----------------------------------------------------------------------------
(* The root table                                                           *)

\* C27: after construction and after every add, erase and build
\* notification and every query of DynArcLookUp, for every node n with
\* _head[n] # INVALID, _head[n] is a current arc with source n and
\* _parent[_head[n]] is INVALID.
C27_RootTable ==
  (mode = "dyn" /\ st = "ok") =>
     \A n \in Nodes : head[n] # INVALID =>
        /\ head[n] \in alive
        /\ src[head[n]] = n
        /\ parent[head[n]] = INVALID

----------------------------------------------------------------------------
(* The order in which parallel arcs are enumerated                          *)

\* The arcs of the sequence w that have target t, in the order of w.
WithTarget(g, w, t) == SelectSeq(w, LAMBDA a : g.tgt[a] = t)

\* The sequence w, sorted by target, with the arc a put after every arc
\* whose target is less than or equal to the target of a.
Placed(g, w, a) ==
  LET k == Cardinality({i \in 1..Len(w) : g.tgt[w[i]] <= g.tgt[a]})
  IN SubSeq(w, 1, k) \o <<a>> \o SubSeq(w, k + 1, Len(w))

\* add(arc) has run: the arc is last among the arcs of its target in the
\* in-order sequence and in the enumeration by findFirst/findNext, which
\* lists the arcs that were there before in the order they had.
AddPlacesLast ==
  (mode = "dyn" /\ st = "ok" /\ last'.op = "add") =>
     LET a == last'.a
         s == src'[a]
         t == tgt'[a]
     IN /\ st' = "ok"
        /\ TreeSeq(MAfter, s) = Placed(GAfter, TreeSeq(M, s), a)
        /\ Enumeration(GAfter, MAfter, s, t)
             = WithTarget(G, TreeSeq(M, s), t) \o <<a, INVALID>>

\* add(const std::vector<Arc>&) has run for two arcs: as two calls of add.
AddBatchPlacesLast ==
  (mode = "dyn" /\ st = "ok" /\ last'.op = "addBatch") =>
     LET b == last'.a
         a == CHOOSE x \in alive' \ alive : x # b
         s == src'[a]
     IN /\ st' = "ok"
        /\ TreeSeq(MAfter, s) = Placed(GAfter, Placed(GAfter, TreeSeq(M, s), a), b)

\* A query has run and returned: every tree has the in-order sequence it had.
QueryKeepsOrder ==
  (mode = "dyn" /\ st = "ok" /\ st' = "ok"
     /\ last'.op \in {"lookup", "findFirst", "findNext"}) =>
     \A n \in Nodes : TreeSeq(MAfter, n) = TreeSeq(M, n)

\* findFirst/findNext hand out the arcs s->t in their in-order sequence.
EnumeratesInOrder ==
  (mode = "dyn" /\ st = "ok") =>
     \A s \in Nodes, t \in Nodes : head[s] # INVALID =>
        Enumeration(G, M, s, t) = WithTarget(G, TreeSeq(M, s), t) \o <<INVALID>>

\* C28: insert places a new arc after every arc of the tree whose target is
\* less than or equal to its own in the in-order sequence; queries keep the
\* in-order sequence and findFirst/findNext enumerate the arcs s->t in that
\* sequence; so arcs s->t delivered by add notifications, with only queries
\* and adds in between, are enumerated in the order of their notifications,
\* after the arcs s->t that were there at the last build.
C28_EnumerationOrder ==
  /\ [][AddPlacesLast /\ AddBatchPlacesLast /\ QueryKeepsOrder]_vars
  /\ []EnumeratesInOrder

\* add has delivered the third of three parallel arcs, next to none of
\* greater target; the enumeration hands it out last.
C28_Witness ==
  /\ mode = "dyn" /\ st = "ok" /\ last.op = "add" /\ last.a \in alive
  /\ Cardinality(Arcs(G, src[last.a], tgt[last.a])) = 3
  /\ Enumeration(G, M, src[last.a], tgt[last.a])[3] = last.a

----------------------------------------------------------------------------
(* splay on the trees of one node with up to MaxSplay out-arcs              *)

\* The most out-arcs of the node whose tree is splayed.
MaxSplay == 5

SplayInputs ==
  {Ascending(T) : T \in SUBSET (1..MaxSplay) \ {{}}}
    \cup {Reversed(Ascending(T)) : T \in SUBSET (1..MaxSplay) \ {{}}}

\* The number of arcs above a; links are followed at most fuel times.
RECURSIVE Depth(_, _, _)
Depth(m, a, fuel) ==
  IF m.parent[a] = INVALID \/ fuel = 0 THEN 0
  ELSE 1 + Depth(m, m.parent[a], fuel - 1)

\* DynArcLookUp constructed over a node with the out-arcs of a vector v.
InitSplay ==
  /\ mode = "splay"
  /\ \E v \in SplayInputs :
       /\ alive = Range(v)
       /\ sorted = [n \in Nodes |-> IF n = 1 THEN v ELSE <<>>]
       /\ LET m == refreshNode([head |-> NoHead, parent |-> NoSlots, left |-> NoSlots,
                                right |-> NoSlots, st |-> "ok"], v, 1)
          IN head = m.head /\ parent = m.parent /\ left = m.left /\ right = m.right
  /\ src = [a \in Slots |-> 1] /\ tgt = [a \in Slots |-> 1]
  /\ sHead = NoHead /\ sLeft = NoSlots /\ sRight = NoSlots /\ sNext = NoSlots
  /\ st = "ok" /\ last = NoCall /\ broken = 0
  /\ indexed = NoHist /\ snap = NoHist /\ erased = [n \in Nodes |-> FALSE]
  /\ dirty = {} /\ muts = 0
  /\ less = NodeLess

\* splay(v); the call record keeps v and the depth v had.
SplayArc ==
  /\ mode = "splay" /\ st = "ok"
  /\ \E v \in alive :
       LET m == splay(G, M, v) IN
       /\ head' = m.head /\ parent' = m.parent /\ left' = m.left /\ right' = m.right
       /\ st' = m.st
       /\ last' = Call("splay", 1, Depth(M, v, Fuel), v, INVALID)
  /\ UNCHANGED <<mode, gvars, svars, broken, less, indexed, snap, erased, dirty, muts, sorted>>

NextSplay == SplayArc

SpecSplay == InitSplay /\ [][NextSplay]_vars

\* The iterations of the loop of splay(v) from the maps m on: each ends,
\* and takes 1 from the depth of v when the parent of v is the root and 2
\* when it is not.
RECURSIVE DepthFalls(_, _, _)
DepthFalls(m, v, fuel) ==
  IF m.parent[v] = INVALID THEN TRUE
  ELSE /\ fuel > 0
       /\ LET m1 == splayStep(m, v)
              by == IF m.parent[m.parent[v]] = INVALID THEN 1 ELSE 2
          IN /\ m1.st = "ok"
             /\ Depth(m1, v, Fuel) = Depth(m, v, Fuel) - by
             /\ DepthFalls(m1, v, fuel - 1)

\* The rotations splay(v) makes from the maps m on.
RECURSIVE Rotations(_, _, _)
Rotations(m, v, fuel) ==
  IF m.parent[v] = INVALID \/ fuel = 0 THEN 0
  ELSE (IF m.parent[m.parent[v]] = INVALID THEN 1 ELSE 2)
         + Rotations(splayStep(m, v), v, fuel - 1)

\* C29: for any arc v of a tree whose parent links have no cycle and agree
\* with the child links, the loop of splay(v) ends; each iteration lowers the
\* depth of v, by 1 for a single rotation under the root and by 2 for a
\* double rotation, so splay(v) makes at most depth(v) rotations.
C29_SplayTerminates ==
  (mode = "splay" /\ st = "ok") =>
     /\ Linked(G, M)
     /\ \A v \in alive :
           /\ splay(G, M, v).st = "ok"
           /\ DepthFalls(M, v, Fuel)
           /\ Rotations(M, v, Fuel) <= Depth(M, v, Fuel)

\* splay(v) has returned for an arc that was at depth 3 or more, so its loop
\* ran more than once; v is the root.
C29_Witness ==
  /\ mode = "splay" /\ st = "ok" /\ last.op = "splay"
  /\ last.t >= 3
  /\ head[1] = last.a /\ parent[last.a] = INVALID

----------------------------------------------------------------------------
(* The _next chains                                                         *)

\* For the arcs of A: _next leads to a current arc of the same source and
\* target, and the chain from the arc repeats no arc and ends at INVALID
\* after at most k - 1 steps, k the number of arcs of that source and target.
ChainsWellFormed(A) ==
  \A a \in A :
     /\ sNext[a] # INVALID =>
           /\ sNext[a] \in alive
           /\ src[sNext[a]] = src[a] /\ tgt[sNext[a]] = tgt[a]
     /\ LET c == ChainFrom(S, a, Fuel)
        IN /\ NoRepeat(c)
           /\ Len(c) <= Cardinality(Arcs(G, src[a], tgt[a]))
           /\ sNext[c[Len(c)]] = INVALID

\* C30 as stated: after construction or refresh(n) of AllArcLookUp, for
\* every arc a with _next[a] # INVALID, _next[a] has the source and the
\* target of a, and the chain from any arc revisits no arc and reaches
\* INVALID after at most k - 1 steps.
C30_AsStated ==
  (mode = "all" /\ st = "ok"
     /\ last.op \in {"construct", "refreshNode", "refreshNodeCatchUp"}) =>
        ChainsWellFormed(alive)

\* C30: the same, after construction for every arc, after refresh(n) for
\* the out-arcs of n, and for every arc when n was the only node whose
\* out-arcs had changed since the trees were built.
C30_ChainsWellFormed ==
  (mode = "all" /\ st = "ok") =>
     /\ last.op \in {"construct", "refreshNodeCatchUp"} => ChainsWellFormed(alive)
     /\ last.op = "refreshNode" => ChainsWellFormed(OutArcs(G, last.s))

\* refresh(n) has caught up with changes at n, which has a chain of three
\* parallel arcs.
C30_Witness ==
  /\ mode = "all" /\ st = "ok" /\ last.op = "refreshNodeCatchUp"
  /\ \E a \in OutArcs(G, last.s) : Len(ChainFrom(S, a, Fuel)) = 3

=============================================================================
